---------------------------- MODULE Spec2Model ----------------------------
(***************************************************************************)
(* A model of the batch scripts of the ce-scripts repository.  Each run    *)
(* of the model is one invocation of one script (variable job); the        *)
(* scripts share no state, so the actions of a script are enabled only     *)
(* when job names it.                                                      *)
(*                                                                         *)
(*   gitlab      backfill-scripts/dx-onboarding/gitlabOnboardingBackfill.js*)
(*               lines 1-214: the GitLab onboarding backfill               *)
(*   setPullServices  the same file, lines 216-448: the                    *)
(*               deployments.setPullServices importer                      *)
(*   confluence  unnamed/part_002: the Confluence comments exporter        *)
(*   pipelines   backfill-scripts/pipelines/pipelinesBackfill.js           *)
(*   deployments deploymentsBackfill.js: the deployments CSV uploader      *)
(*   incidents   unnamed/part_001: the incidents importer                  *)
(*   functions   one call of one of the scripts' pure functions            *)
(*   failureLog  calls of appendFailure of the pipelines importer, in any  *)
(*               number and from any number of runs, on one log file       *)
(*   shards      the shards of the setPullServices importer and the        *)
(*               workers that go through them                              *)
(*   tabnine     ai-tools/tabnine/DxTabnineAutomation.js: the batches of   *)
(*               the Tabnine usage importer                                *)
(***************************************************************************)
EXTENDS Integers, Sequences, FiniteSets, TLC

VARIABLES
  job,            \* the script this behaviour runs
  pc,             \* position of the running script
  exitCode,       \* process exit code (read when the script has ended)
  \* ---- GitLab onboarding backfill
  GROUPS,         \* group ids, as parsed from --groups
  USERS,          \* usernames, as parsed from --users
  AUTO_RESUME,    \* --resume
  DRY_RUN,        \* --dry-run
  resumeFile,     \* RESUME_FILE on disk: [exists, g, u], the two tokens of its text
  startGroupIdx,
  startUserIdx,
  gi,
  ui,
  attempt,        \* the attempt parameter of getEarliestMergedMRs
  mrsLeft,        \* merge requests of the current unit still to post
  success,
  finishPing,     \* outcome of postDX({finished: true}): "none" until it is made
  completed,      \* ghost: units <<gi, ui>> this invocation has completed
  markPos,        \* ghost: the unit at which the marker on disk was written, <<>> if none
  startup,        \* ghost: the state file startup read, and whether it prompted and resumed
  glRequests,     \* ghost: GETs issued by the getEarliestMergedMRs call in progress
  lastFetch,      \* ghost: the last GitLab response and the sleep that followed it
  lastPost,       \* ghost: what DX answered to the last postDX of the unit, <<>> if none
  \* ---- setPullServices importer
  spsDryRun,      \* DRY_RUN of main
  spsToken,       \* whether --token or DX_TOKEN gives a token
  successFile,    \* benchling_success.csv on disk: "header" and "row" lines
  errorFile,      \* benchling_errors.csv on disk: "header" and "row" lines
  spsLast,        \* ghost: the preview printed for the last group
  spsItem,        \* 1-based index of the group the worker is at
  retryAttempt,   \* attempt of withRetry
  spsHist,        \* ghost: the statuses the sink gave for the current group
  spsDelays,      \* ghost: the sleeps of withRetry for the current group, in ms
  successOut,     \* rows written to benchling_success.csv
  errorOut,       \* rows written to benchling_errors.csv (their group; the
                  \* error column is left out)
  \* ---- Confluence comments exporter
  fcPage,         \* 1-based index into sourceIds
  fcEndpoint,     \* "footer-comments" or "inline-comments"
  fcAttempt,      \* the attempt parameter of fetchComments
  fcRequests,     \* ghost: requests issued for the current page and endpoint
  \* ---- pipelines importer
  pipeDryRun,     \* DRY_RUN
  pipeToken,      \* whether --token or DX_TOKEN gives a token
  failureFile,    \* FAILURE_LOG_FILE on disk: [exists, rows]
  pipeLast,       \* ghost: what postDX logged and sent for the last record
  pipeRows,       \* number of rows of each CSV file, in processing order
  pipeFile,       \* 1-based index of the file being processed
  pipeRow,        \* 1-based index of the record being processed
  pipeAttempted,  \* ghost: <<file, row, outcome>> of every record attempted
  failureLog,     \* data rows appended to FAILURE_LOG_FILE
  \* ---- deployments uploader
  depDryRun,      \* opts.dryRun
  depToken,       \* whether --token or DX_TOKEN gives a token
  depLast,        \* ghost: the last row: what was built, logged and sent
  depCount,       \* records.length
  depIdx,         \* i of the main loop
  failures,
  depResults,     \* ghost: the outcome logged for each row
  \* ---- incidents importer
  incDryRun,      \* DRY_RUN
  RPS,            \* --rps
  incCount,       \* rows.length
  incIdx,         \* rows processed so far
  now,            \* the clock, in ms since the loop began
  callStarts,     \* ghost: the times at which the POSTs began
  incLast,        \* ghost: the last row: what was logged and sent
  \* ---- one call of a pure function
  fnName,         \* the function called
  fnInput,        \* its argument
  fnOutput,       \* what it returned, NotCalled before the call
  \* ---- setPullServices importer: the shards and their workers
  shArg,          \* parseInt(args.concurrency, 10)
  shDryRun,       \* DRY_RUN of main
  shCount,        \* groups.length; the groups are numbered from 1
  shI,            \* i of the loop of chunk
  shShards,       \* res of chunk: the shards, each a list of groups
  shDone,         \* for each worker, the groups of its shard it has finished
  shBusy,         \* the workers that await the answer for a group
  shEvents,       \* ghost: <<"begin", g>> and <<"end", g>> in the order they happen
  \* ---- Tabnine usage importer
  tabFlag,        \* ARGS.chunkSize: <<>> without --chunk-size, else <<Number(val)>>
  tabEnv,         \* process.env.CHUNK_SIZE: <<>> if unset, else <<parseInt of it>>
  tabDryRun,      \* DRY_RUN
  tabRows,        \* rows.length; the rows are numbered from 1
  tabI,           \* i of the loop of main
  tabBatches      \* ghost: the rows of every batch given to the database

glVars == <<GROUPS, USERS, AUTO_RESUME, DRY_RUN, resumeFile, startGroupIdx,
            startUserIdx, gi, ui, attempt, mrsLeft, success, finishPing,
            completed, markPos, startup, glRequests, lastFetch, lastPost>>

spsVars == <<spsDryRun, spsToken, successFile, errorFile, spsLast, spsItem,
             retryAttempt, spsHist, spsDelays, successOut, errorOut>>

fcVars == <<fcPage, fcEndpoint, fcAttempt, fcRequests>>

pipeVars == <<pipeDryRun, pipeToken, failureFile, pipeLast, pipeRows, pipeFile,
              pipeRow, pipeAttempted, failureLog>>

depVars == <<depDryRun, depToken, depLast, depCount, depIdx, failures, depResults>>

incVars == <<incDryRun, RPS, incCount, incIdx, now, callStarts, incLast>>

fnVars == <<fnName, fnInput, fnOutput>>

shVars == <<shArg, shDryRun, shCount, shI, shShards, shDone, shBusy, shEvents>>

tabVars == <<tabFlag, tabEnv, tabDryRun, tabRows, tabI, tabBatches>>

vars == <<job, pc, exitCode, glVars, spsVars, fcVars, pipeVars, depVars, incVars,
          fnVars, shVars, tabVars>>

---------------------------------------------------------------------------
(* Bounds of the model *)

\* entries of --groups and of --users
NumGroups == 2
NumUsers == 2
\* merge requests one GET returns at most
MaxMRs == 2
\* PR groups the setPullServices worker is given
NumItems == 2
\* seconds of the Retry-After header the sink sends with a 429
SinkRetryAfter == 2
\* pages the Confluence exporter reads from DX
NumPages == 2
\* requests to which the model lets Confluence answer 429 for one item
AttemptCap == 8
\* CSV files in the pipelines directory, and rows of one file at most
NumFiles == 2
MaxRows == 2
\* rows of the deployments CSV at most
MaxDepRows == 3
\* rows of the incidents CSV at most, the greatest --rps, and the time a slow
\* sink takes to answer, in ms
MaxIncRows == 4
\* rows of the pipelines failure log up to which the model appends to it
MaxLogRows == 3
\* names of a directory listing and items of a services cell at most
MaxListing == 3
MaxServices == 3
MaxRPS == 3
SinkLatency == 100

\* groups the shards are cut from at most, and the greatest --concurrency
MaxShardGroups == 4
MaxConcurrency == 3
\* rows of the CSV of setPullServices at most
MaxCsvRows == 3

\* rows the Tabnine API returns at most, and the greatest --chunk-size
MaxTabRows == 3
MaxChunkSize == 3

---------------------------------------------------------------------------
(* Helpers *)

\* what the ghosts record of a record for which no request was made
NoRequest == [sent |-> FALSE]

\* A JavaScript string is a sequence of one-character strings.  String
\* .prototype.trim, with the space for the white space:
RECURSIVE TrimStart(_)
TrimStart(str) ==
  IF str # <<>> /\ Head(str) = " " THEN TrimStart(Tail(str)) ELSE str

RECURSIVE TrimEnd(_)
TrimEnd(str) ==
  IF str # <<>> /\ str[Len(str)] = " "
    THEN TrimEnd(SubSeq(str, 1, Len(str) - 1)) ELSE str

Trim(str) == TrimEnd(TrimStart(str))

\* String.prototype.split on a class of one-character delimiters
RECURSIVE Split(_, _)
Split(str, delims) ==
  IF str = <<>> THEN << <<>> >>
  ELSE IF Head(str) \in delims THEN << <<>> >> \o Split(Tail(str), delims)
  ELSE LET rest == Split(Tail(str), delims)
       IN  << <<Head(str)>> \o Head(rest) >> \o Tail(rest)

\* arr.map(x => x.trim()).filter(Boolean)
TrimAll(arr) == [k \in 1..Len(arr) |-> Trim(arr[k])]
NonEmpty(x) == x # <<>>
FilterBoolean(arr) == SelectSeq(arr, NonEmpty)

\* Array.from(new Set(arr)): the first occurrence of every value, in order
RECURSIVE Dedup(_)
Dedup(arr) ==
  IF arr = <<>> THEN <<>>
  ELSE LET front == Dedup(SubSeq(arr, 1, Len(arr) - 1))
           last == arr[Len(arr)]
       IN  IF \E k \in 1..Len(front) : front[k] = last
             THEN front ELSE Append(front, last)

\* the decimal digits, and Number() of a run of them
Digits == <<"0", "1", "2", "3", "4", "5", "6", "7", "8", "9">>
IsDigit(c) == \E k \in 1..Len(Digits) : Digits[k] = c
DigitValue(c) == (CHOOSE k \in 1..Len(Digits) : Digits[k] = c) - 1

RECURSIVE NumberOfDigits(_)
NumberOfDigits(run) ==
  IF run = <<>> THEN 0
  ELSE NumberOfDigits(SubSeq(run, 1, Len(run) - 1)) * 10 + DigitValue(run[Len(run)])

\* str.join(sep) of a list of strings
RECURSIVE Join(_, _)
Join(arr, sep) ==
  IF arr = <<>> THEN <<>>
  ELSE IF Len(arr) = 1 THEN arr[1]
  ELSE arr[1] \o <<sep>> \o Join(Tail(arr), sep)

Max(a, b) == IF a >= b THEN a ELSE b
Min(a, b) == IF a <= b THEN a ELSE b

\* Array.prototype.slice(start, end) with whole numbers: a negative index
\* counts from the end of the array, and an end that is not after the start
\* gives the empty array
SliceIndex(len, k) == IF k < 0 THEN Max(len + k, 0) ELSE Min(k, len)
JsSlice(arr, start, end) ==
  LET from == SliceIndex(Len(arr), start)
      to == SliceIndex(Len(arr), end)
  IN  IF from < to THEN SubSeq(arr, from + 1, to) ELSE <<>>

\* the lists of a list of lists, one after the other
RECURSIVE Flatten(_)
Flatten(lists) ==
  IF lists = <<>> THEN <<>> ELSE Head(lists) \o Flatten(Tail(lists))

\* a JavaScript number that is a whole number, and NaN
Num(v) == [finite |-> TRUE, value |-> v]
JsNaN == [finite |-> FALSE, value |-> 0]

\* Number(s) of a token that is no number; no value is === to it
NaN == "NaN"

\* Array.prototype.indexOf: the first 0-based index holding x, -1 when none
\* does (strict equality: NaN is found nowhere)
IndexOf(arr, x) ==
  IF x # NaN /\ \E i \in 1..Len(arr) : arr[i] = x
    THEN (CHOOSE i \in 1..Len(arr) :
            arr[i] = x /\ \A j \in 1..(i - 1) : arr[j] # x) - 1
    ELSE -1

---------------------------------------------------------------------------
(* GitLab onboarding backfill *)

\* values --groups entries take after Number(), written as their text, and
\* entries of --users
GroupIds == <<"1", "2", "3", "4">>
UserNames == <<"alice", "bob", "carol", "dave">>

\* the lists a run is given: entries all different, the last entry a repeat
\* of the first, and (groups) a last entry that is no number
DistinctGroups == [i \in 1..NumGroups |-> GroupIds[i]]
DistinctUsers == [i \in 1..NumUsers |-> UserNames[i]]
GroupLists == {DistinctGroups,
               [DistinctGroups EXCEPT ![NumGroups] = GroupIds[1]],
               [DistinctGroups EXCEPT ![NumGroups] = NaN]}
UserLists == {DistinctUsers, [DistinctUsers EXCEPT ![NumUsers] = UserNames[1]]}

NoFile == [exists |-> FALSE, g |-> "", u |-> ""]

\* what the state file may hold before the first invocation: nothing, or
\* text that does not split into two non-empty tokens
ForeignFiles == {NoFile,
                 [exists |-> TRUE, g |-> "", u |-> ""],
                 [exists |-> TRUE, g |-> "1", u |-> ""]}

\* the retry-after header of a 429: absent, or a number of seconds
RetryAfterHeaders == {<<>>, <<0>>, <<2>>}

NoFetch == [status |-> 0, header |-> <<>>, slept |-> 0]
NoStartup == [file |-> NoFile, marked |-> <<>>, prompted |-> FALSE, resumed |-> FALSE]

\* a writeResume that leaves the file as it is
writeResume_Skipped(group, username) == resumeFile

writeResume(group, username) == [exists |-> TRUE, g |-> group, u |-> username]

\* a readResume that takes any existing file for a marker
ResumeFound_AnyFile == resumeFile.exists

\* readResume() # null
ResumeFound == resumeFile.exists /\ resumeFile.g # "" /\ resumeFile.u # ""

\* a retry-after default of no wait at all
RetryAfter_NoDefault(header) == IF header = <<>> THEN 0 ELSE header[1]

\* seconds slept after a 429
RetryAfter(header) == IF header = <<>> THEN 60 ELSE header[1]

\* attempts after which a 429 is no longer retried
MaxFetchAttempts == 5

\* an inner loop that starts at startUserIdx in every group
FirstUserIdx_EveryGroup(g) == startUserIdx

\* the first ui of the inner loop for group index g
FirstUserIdx(g) == IF g = startGroupIdx THEN startUserIdx ELSE 0

GlInit ==
  /\ GROUPS \in GroupLists
  /\ USERS \in UserLists
  /\ AUTO_RESUME \in BOOLEAN
  /\ DRY_RUN \in BOOLEAN
  /\ resumeFile \in ForeignFiles
  /\ startGroupIdx = 0
  /\ startUserIdx = 0
  /\ gi = 0
  /\ ui = 0
  /\ attempt = 1
  /\ mrsLeft = 0
  /\ success = TRUE
  /\ finishPing = "none"
  /\ completed = {}
  /\ markPos = <<>>
  /\ startup = NoStartup
  /\ glRequests = 0
  /\ lastFetch = NoFetch
  /\ lastPost = <<>>

GlIdle ==
  /\ GROUPS = <<>>
  /\ USERS = <<>>
  /\ AUTO_RESUME = FALSE
  /\ DRY_RUN = FALSE
  /\ resumeFile = NoFile
  /\ startGroupIdx = 0
  /\ startUserIdx = 0
  /\ gi = 0
  /\ ui = 0
  /\ attempt = 1
  /\ mrsLeft = 0
  /\ success = TRUE
  /\ finishPing = "none"
  /\ completed = {}
  /\ markPos = <<>>
  /\ startup = NoStartup
  /\ glRequests = 0
  /\ lastFetch = NoFetch
  /\ lastPost = <<>>

GlStart == job = "gitlab" /\ pc = "start" /\ exitCode = 0 /\ GlInit

\* requireVal, lines 63-67: a GitLab token, DX webhook, group list or user
\* list that is missing ends the process with code 1 as the module loads
GlRequireVal ==
  /\ UNCHANGED <<spsVars, fcVars, pipeVars, depVars, incVars, fnVars, shVars, tabVars>>
  /\ job = "gitlab" /\ pc = "start"
  /\ exitCode' = 1
  /\ pc' = "configExit"
  /\ UNCHANGED <<job, glVars>>

\* main, lines 171-187: read the marker, decide whether to resume
GlStartup ==
  /\ UNCHANGED <<spsVars, fcVars, pipeVars, depVars, incVars, fnVars, shVars, tabVars>>
  /\ job = "gitlab" /\ pc = "start"
  /\ \E answerYes \in BOOLEAN :
       LET doResume == ResumeFound /\ (AUTO_RESUME \/ answerYes) IN
       /\ startup' = [file |-> resumeFile,
                      marked |-> markPos,
                      prompted |-> ResumeFound /\ ~AUTO_RESUME,
                      resumed |-> doResume]
       /\ startGroupIdx' = IF doResume THEN Max(0, IndexOf(GROUPS, resumeFile.g)) ELSE 0
       /\ startUserIdx' = IF doResume THEN Max(0, IndexOf(USERS, resumeFile.u)) ELSE 0
       /\ resumeFile' = IF ResumeFound /\ ~doResume THEN NoFile ELSE resumeFile
       /\ markPos' = IF ResumeFound /\ ~doResume THEN <<>> ELSE markPos
  /\ gi' = startGroupIdx'
  /\ ui' = startUserIdx'
  /\ pc' = "loop"
  /\ UNCHANGED <<job, exitCode, GROUPS, USERS, AUTO_RESUME, DRY_RUN, attempt,
                 mrsLeft, success, finishPing, completed, glRequests, lastFetch, lastPost>>

\* main, lines 191-196: the head of one (group, user) unit
GlBeginUnit ==
  /\ UNCHANGED <<spsVars, fcVars, pipeVars, depVars, incVars, fnVars, shVars, tabVars>>
  /\ job = "gitlab" /\ pc = "loop"
  /\ resumeFile' = writeResume(GROUPS[gi + 1], USERS[ui + 1])
  /\ markPos' = <<gi, ui>>
  /\ attempt' = 1
  /\ glRequests' = 0
  /\ lastFetch' = NoFetch
  /\ pc' = "fetch"
  /\ lastPost' = <<>>
  /\ UNCHANGED <<job, exitCode, GROUPS, USERS, AUTO_RESUME, DRY_RUN, startGroupIdx,
                 startUserIdx, gi, ui, mrsLeft, success, finishPing, completed,
                 startup>>

\* a catch that goes on to the end of main as if the loops had finished
GlAbort_ThenFinish ==
  /\ success' = FALSE
  /\ exitCode' = 1
  /\ pc' = "finish"

\* the catch of main, lines 201-204 and 210-212
GlAbort ==
  /\ success' = FALSE
  /\ exitCode' = 1
  /\ pc' = "exit"

\* the unit <<gi, ui>> is done: the loops of lines 191-193 step on
GlCompleteUnit ==
  /\ completed' = completed \cup {<<gi, ui>>}
  /\ mrsLeft' = 0
  /\ IF ui + 1 < Len(USERS)
       THEN gi' = gi /\ ui' = ui + 1 /\ pc' = "loop"
       ELSE IF gi + 1 < Len(GROUPS)
         THEN gi' = gi + 1 /\ ui' = FirstUserIdx(gi + 1) /\ pc' = "loop"
         ELSE gi' = gi /\ ui' = ui /\ pc' = "finish"

\* getEarliestMergedMRs, lines 120-126: a 429 answer
GlFetch429 ==
  /\ UNCHANGED <<spsVars, fcVars, pipeVars, depVars, incVars, fnVars, shVars, tabVars>>
  /\ job = "gitlab" /\ pc = "fetch"
  /\ \E h \in RetryAfterHeaders :
       lastFetch' = [status |-> 429, header |-> h, slept |-> RetryAfter(h) * 1000]
  /\ glRequests' = glRequests + 1
  /\ IF attempt >= MaxFetchAttempts
       THEN GlAbort /\ attempt' = attempt
       ELSE attempt' = attempt + 1 /\ UNCHANGED <<pc, success, exitCode>>
  /\ UNCHANGED <<job, GROUPS, USERS, AUTO_RESUME, DRY_RUN, resumeFile, startGroupIdx,
                 startUserIdx, gi, ui, mrsLeft, finishPing, completed, markPos,
                 startup, lastPost>>

\* getEarliestMergedMRs, lines 111-118 and 128-131: the request throws, or the
\* answer is not ok
GlFetchError ==
  /\ UNCHANGED <<spsVars, fcVars, pipeVars, depVars, incVars, fnVars, shVars, tabVars>>
  /\ job = "gitlab" /\ pc = "fetch"
  /\ \E st \in {0, 404, 500} :
       lastFetch' = [status |-> st, header |-> <<>>, slept |-> 0]
  /\ glRequests' = glRequests + 1
  /\ GlAbort
  /\ UNCHANGED <<job, GROUPS, USERS, AUTO_RESUME, DRY_RUN, resumeFile, startGroupIdx,
                 startUserIdx, gi, ui, attempt, mrsLeft, finishPing, completed,
                 markPos, startup, lastPost>>

\* getEarliestMergedMRs, line 132, and sendDataToDX, line 154: an ok answer of
\* n merge requests; with none sendDataToDX returns at once
GlFetchOk ==
  /\ UNCHANGED <<spsVars, fcVars, pipeVars, depVars, incVars, fnVars, shVars, tabVars>>
  /\ job = "gitlab" /\ pc = "fetch"
  /\ lastFetch' = [status |-> 200, header |-> <<>>, slept |-> 0]
  /\ glRequests' = 0
  /\ attempt' = 1
  /\ \E n \in 0..MaxMRs :
       IF n = 0
         THEN GlCompleteUnit
         ELSE mrsLeft' = n /\ pc' = "post" /\ UNCHANGED <<gi, ui, completed>>
  /\ UNCHANGED <<job, exitCode, GROUPS, USERS, AUTO_RESUME, DRY_RUN, resumeFile,
                 startGroupIdx, startUserIdx, success, finishPing,
                 markPos, startup, lastPost>>

\* what the DX webhook does with one POST: 200 with a JSON body, 200 with
\* {"ok": false}, 200 with a body that is no JSON, another status, no answer
DxAnswers == {"ok", "okFalse", "notJson", "status", "throw"}

\* postDX, lines 136-151: whether the call throws.  The throw of line 147 is
\* inside the try whose catch (line 148) swallows it.
PostDXThrows(answer) == ~DRY_RUN /\ answer \in {"status", "throw"}

\* sendDataToDX, lines 155-165: one postDX of the current unit
GlPost ==
  /\ UNCHANGED <<spsVars, fcVars, pipeVars, depVars, incVars, fnVars, shVars, tabVars>>
  /\ job = "gitlab" /\ pc = "post"
  /\ \E answer \in DxAnswers :
       \* line 138: a dry run logs the payload and sends nothing
       /\ lastPost' = IF DRY_RUN THEN <<>> ELSE <<answer>>
       /\ IF PostDXThrows(answer)
            THEN GlAbort /\ UNCHANGED mrsLeft
            ELSE /\ mrsLeft' = mrsLeft - 1
                 /\ pc' = IF mrsLeft = 1 THEN "throttle" ELSE "post"
                 /\ UNCHANGED <<success, exitCode>>
  /\ UNCHANGED <<job, GROUPS, USERS, AUTO_RESUME, DRY_RUN, resumeFile, startGroupIdx,
                 startUserIdx, gi, ui, attempt, finishPing, completed, markPos,
                 startup, glRequests, lastFetch>>

\* sendDataToDX, line 166: the one-second throttle that ends a unit
GlThrottle ==
  /\ UNCHANGED <<spsVars, fcVars, pipeVars, depVars, incVars, fnVars, shVars, tabVars>>
  /\ job = "gitlab" /\ pc = "throttle"
  /\ GlCompleteUnit
  /\ lastPost' = <<>>
  /\ UNCHANGED <<job, exitCode, GROUPS, USERS, AUTO_RESUME, DRY_RUN, resumeFile,
                 startGroupIdx, startUserIdx, attempt, success, finishPing,
                 markPos, startup, glRequests, lastFetch>>

\* an ending that keeps the marker when the finished ping fails
GlFinish_KeepOnPingFailure ==
  /\ UNCHANGED <<spsVars, fcVars, pipeVars, depVars, incVars, fnVars, shVars, tabVars>>
  /\ job = "gitlab" /\ pc = "finish"
  /\ \E answer \in DxAnswers :
       /\ finishPing' = IF DRY_RUN THEN "dry"
                        ELSE IF PostDXThrows(answer) THEN "failed" ELSE "sent"
       /\ resumeFile' = IF finishPing' = "failed" THEN resumeFile ELSE NoFile
       /\ markPos' = IF finishPing' = "failed" THEN markPos ELSE <<>>
  /\ pc' = "exit"
  /\ UNCHANGED <<job, exitCode, GROUPS, USERS, AUTO_RESUME, DRY_RUN, startGroupIdx,
                 startUserIdx, gi, ui, attempt, mrsLeft, success, completed,
                 startup, glRequests, lastFetch, lastPost>>

\* main, lines 206-209: the finished ping, then clearResume
GlFinish ==
  /\ UNCHANGED <<spsVars, fcVars, pipeVars, depVars, incVars, fnVars, shVars, tabVars>>
  /\ job = "gitlab" /\ pc = "finish"
  /\ \E answer \in DxAnswers :
       finishPing' = IF DRY_RUN THEN "dry"
                     ELSE IF PostDXThrows(answer) THEN "failed" ELSE "sent"
  /\ resumeFile' = NoFile
  /\ markPos' = <<>>
  /\ pc' = "exit"
  /\ UNCHANGED <<job, exitCode, GROUPS, USERS, AUTO_RESUME, DRY_RUN, startGroupIdx,
                 startUserIdx, gi, ui, attempt, mrsLeft, success, completed,
                 startup, glRequests, lastFetch, lastPost>>

\* the process is killed at any point, or has ended, and the script is
\* invoked again with the same lists and state file
GlRerun ==
  /\ UNCHANGED <<spsVars, fcVars, pipeVars, depVars, incVars, fnVars, shVars, tabVars>>
  /\ job = "gitlab"
  /\ AUTO_RESUME' \in BOOLEAN
  /\ pc' = "start"
  /\ exitCode' = 0
  /\ startGroupIdx' = 0
  /\ startUserIdx' = 0
  /\ gi' = 0
  /\ ui' = 0
  /\ attempt' = 1
  /\ mrsLeft' = 0
  /\ success' = TRUE
  /\ finishPing' = "none"
  /\ completed' = {}
  /\ startup' = NoStartup
  /\ glRequests' = 0
  /\ lastFetch' = NoFetch
  /\ lastPost' = <<>>
  /\ UNCHANGED <<job, GROUPS, USERS, DRY_RUN, resumeFile, markPos>>

NextGitlab ==
  \/ GlRequireVal
  \/ GlStartup
  \/ GlBeginUnit
  \/ GlFetch429
  \/ GlFetchError
  \/ GlFetchOk
  \/ GlPost
  \/ GlThrottle
  \/ GlFinish
  \/ GlRerun

---------------------------------------------------------------------------
(* setPullServices importer *)

\* err.response of a request that got no answer (network error, timeout);
\* the error log writes it as NO_RESP
NO_RESP == 0

\* what the sink answers to one POST
SpsStatuses == {200, 404, 408, 429, 500, NO_RESP}

\* withRetry's max and baseDelay as the worker passes them, the cap of the
\* backoff and the range of its jitter
WithRetryMax == 5
BaseDelay == 500
BackoffCap == 30000
JitterRange == 250

\* values Math.floor(Math.random() * 250) takes: the least and the greatest
JitterValues == {0, JitterRange - 1}

\* a retry rule that takes every answered failure for a transient one
Retryable_EveryStatus(status) == TRUE

\* withRetry, line 343
Retryable(status) ==
  status = NO_RESP \/ status >= 500 \/ status = 429 \/ status = 408

\* a backoff that does not double
Backoff_NoDoubling(attempt_, jitter) == Min(BackoffCap, BaseDelay) + jitter

\* withRetry, lines 345-346: the sleep after failure number attempt_
Backoff(attempt_, jitter) ==
  Min(BackoffCap, BaseDelay * 2 ^ (attempt_ - 1)) + jitter

\* the callback of withRetry, lines 410-417, under validateStatus (line 371):
\* axios rejects an answer of 500 and above and a request with no answer, and
\* the callback throws on 400 and above
CallThrows(status) == status = NO_RESP \/ status >= 400

\* worker, line 387: the payload of group number item
SpsPayload(item) == [group |-> item]

SpsStart ==
  /\ spsDryRun \in BOOLEAN
  /\ spsToken \in BOOLEAN
  /\ successFile = <<>>
  /\ errorFile = <<>>
  /\ spsLast = <<>>
  /\ spsItem = 1
  /\ retryAttempt = 0
  /\ spsHist = <<>>
  /\ spsDelays = <<>>
  /\ successOut = <<>>
  /\ errorOut = <<>>

SpsIdle ==
  /\ spsDryRun = FALSE
  /\ spsToken = FALSE
  /\ successFile = <<>>
  /\ errorFile = <<>>
  /\ spsLast = <<>>
  /\ spsItem = 1
  /\ retryAttempt = 0
  /\ spsHist = <<>>
  /\ spsDelays = <<>>
  /\ successOut = <<>>
  /\ errorOut = <<>>

\* main, lines 362-383: a live run without a token throws, and main's catch
\* exits with code 1; otherwise both logs are opened for appending and the
\* header line is written to each
SpsMain ==
  /\ UNCHANGED <<glVars, fcVars, pipeVars, depVars, incVars, fnVars, shVars, tabVars>>
  /\ job = "setPullServices" /\ pc = "spsMain"
  /\ IF ~spsToken /\ ~spsDryRun
       THEN /\ exitCode' = 1
            /\ pc' = "spsExit"
            /\ UNCHANGED <<successFile, errorFile>>
       ELSE /\ successFile' = Append(successFile, "header")
            /\ errorFile' = Append(errorFile, "header")
            /\ pc' = "spsLoop"
            /\ UNCHANGED exitCode
  /\ UNCHANGED <<job, spsDryRun, spsToken, spsLast, spsItem, retryAttempt,
                 spsHist, spsDelays, successOut, errorOut>>

\* worker, lines 386-407: the head of the loop over the groups, and its end
SpsBegin ==
  /\ UNCHANGED <<glVars, fcVars, pipeVars, depVars, incVars, fnVars, shVars, tabVars>>
  /\ job = "setPullServices" /\ pc = "spsLoop"
  /\ retryAttempt' = 0
  /\ spsHist' = <<>>
  /\ spsDelays' = <<>>
  /\ IF spsItem > NumItems
       THEN pc' = "spsDone" /\ UNCHANGED <<spsItem, successOut, successFile, spsLast>>
       ELSE /\ spsLast' = [group |-> spsItem, logged |-> <<SpsPayload(spsItem)>>]
            /\ IF spsDryRun
                 THEN /\ successOut' = Append(successOut,
                                         [item |-> spsItem, status |-> 0, dry |-> TRUE])
                      /\ successFile' = Append(successFile, "row")
                      /\ spsItem' = spsItem + 1
                      /\ pc' = "spsLoop"
                 ELSE pc' = "spsCall" /\ UNCHANGED <<spsItem, successOut, successFile>>
  /\ UNCHANGED <<job, exitCode, spsDryRun, spsToken, errorOut, errorFile>>

\* worker, lines 409-427, and withRetry, lines 335-350: one POST of the
\* current group and what follows it (a log row, or the backoff sleep)
SpsCall ==
  /\ UNCHANGED <<glVars, fcVars, pipeVars, depVars, incVars, fnVars, shVars, tabVars>>
  /\ job = "setPullServices" /\ pc = "spsCall"
  /\ \E status \in SpsStatuses :
       /\ spsHist' = Append(spsHist, status)
       /\ IF ~CallThrows(status)
            THEN /\ successOut' = Append(successOut,
                                    [item |-> spsItem, status |-> status, dry |-> FALSE])
                 /\ successFile' = Append(successFile, "row")
                 /\ spsItem' = spsItem + 1
                 /\ pc' = "spsLoop"
                 /\ UNCHANGED <<retryAttempt, spsDelays, errorOut, errorFile>>
            ELSE /\ retryAttempt' = retryAttempt + 1
                 /\ IF ~Retryable(status) \/ retryAttempt' >= WithRetryMax
                      THEN /\ errorOut' = Append(errorOut, [item |-> spsItem])
                           /\ errorFile' = Append(errorFile, "row")
                           /\ spsItem' = spsItem + 1
                           /\ pc' = "spsLoop"
                           /\ UNCHANGED <<spsDelays, successOut, successFile>>
                      ELSE /\ \E jitter \in JitterValues :
                                spsDelays' = Append(spsDelays,
                                                    Backoff(retryAttempt', jitter))
                           /\ UNCHANGED <<pc, spsItem, successOut, errorOut,
                                          successFile, errorFile>>
  /\ UNCHANGED <<job, exitCode, spsDryRun, spsToken, spsLast>>

\* header lines a log file holds
Headers(file) == Cardinality({k \in 1..Len(file) : file[k] = "header"})

\* a finished job is started a second time, in the directory that holds the
\* two log files of the first run
SpsRerun ==
  /\ UNCHANGED <<glVars, fcVars, pipeVars, depVars, incVars, fnVars, shVars, tabVars>>
  /\ job = "setPullServices" /\ pc = "spsDone"
  /\ Headers(successFile) < 2
  /\ spsDryRun' \in BOOLEAN
  /\ spsItem' = 1
  /\ retryAttempt' = 0
  /\ spsHist' = <<>>
  /\ spsDelays' = <<>>
  /\ successOut' = <<>>
  /\ errorOut' = <<>>
  /\ spsLast' = <<>>
  /\ pc' = "spsMain"
  /\ UNCHANGED <<job, exitCode, spsToken, successFile, errorFile>>

SpsInit == job = "setPullServices" /\ pc = "spsMain" /\ exitCode = 0 /\ SpsStart

NextSps == SpsMain \/ SpsBegin \/ SpsCall \/ SpsRerun

---------------------------------------------------------------------------
(* Confluence comments exporter *)

FcStart ==
  /\ fcPage = 1
  /\ fcEndpoint = "footer-comments"
  /\ fcAttempt = 1
  /\ fcRequests = 0

FcIdle == FcStart

\* fetchAndWriteComments, lines 123-156: fetchComments has returned; go on
\* to the inline comments of the page, or to the next page
FcReturn ==
  /\ fcAttempt' = 1
  /\ fcRequests' = 0
  /\ IF fcEndpoint = "footer-comments"
       THEN fcEndpoint' = "inline-comments" /\ UNCHANGED <<fcPage, pc>>
       ELSE /\ fcEndpoint' = "footer-comments"
            /\ fcPage' = fcPage + 1
            /\ pc' = IF fcPage + 1 > NumPages THEN "fcWrite" ELSE "fcFetch"

\* fetchComments, lines 79-84: a 429 is answered by a sleep and another
\* request, whatever attempt says
FcRetry429 ==
  /\ UNCHANGED <<glVars, spsVars, pipeVars, depVars, incVars, fnVars, shVars, tabVars>>
  /\ job = "confluence" /\ pc = "fcFetch"
  /\ fcAttempt < AttemptCap
  /\ fcRequests' = fcRequests + 1
  /\ fcAttempt' = fcAttempt + 1
  /\ UNCHANGED <<job, pc, exitCode, fcPage, fcEndpoint>>

\* fetchComments, lines 86-91: a 503 or 504 on one of the first 3 attempts
FcRetryUnavailable ==
  /\ UNCHANGED <<glVars, spsVars, pipeVars, depVars, incVars, fnVars, shVars, tabVars>>
  /\ job = "confluence" /\ pc = "fcFetch"
  /\ fcAttempt <= 3
  /\ fcRequests' = fcRequests + 1
  /\ fcAttempt' = fcAttempt + 1
  /\ UNCHANGED <<job, pc, exitCode, fcPage, fcEndpoint>>

\* fetchComments, lines 86 and 93-104: every other answer (a 503 or 504 after
\* attempt 3, a 401, another failure, a success) ends the call
FcAnswer ==
  /\ UNCHANGED <<glVars, spsVars, pipeVars, depVars, incVars, fnVars, shVars, tabVars>>
  /\ job = "confluence" /\ pc = "fcFetch"
  /\ \E status \in {200, 401, 500, 503} :
       status = 503 => fcAttempt > 3
  /\ FcReturn
  /\ UNCHANGED <<job, exitCode>>

\* fetchAndWriteComments, lines 158-190: the two CSV files are written
FcWrite ==
  /\ UNCHANGED <<glVars, spsVars, pipeVars, depVars, incVars, fnVars, shVars, tabVars>>
  /\ job = "confluence" /\ pc = "fcWrite"
  /\ pc' = "fcDone"
  /\ UNCHANGED <<job, exitCode, fcVars>>

FcInit == job = "confluence" /\ pc = "fcFetch" /\ exitCode = 0 /\ FcStart

NextConfluence == FcRetry429 \/ FcRetryUnavailable \/ FcAnswer \/ FcWrite

---------------------------------------------------------------------------
(* pipelines importer *)

\* what one POST to the DX API does: a 2xx, another status, or a throw
PipeAnswers == {"2xx", "status", "throw"}

\* postDX, lines 134-146, as main reads it: "ok", "failed" (not ok) or "threw"
PipeOutcome(answer) ==
  IF pipeDryRun \/ answer = "2xx" THEN "ok"
  ELSE IF answer = "status" THEN "failed" ELSE "threw"

\* names of the CSV files of the queue and reference_ids of the rows of a file
ChunkNames == <<"chunk_1.csv", "chunk_2.csv", "chunk_3.csv">>
RefIds == <<"r1", "r2", "r3">>

\* buildPayload, lines 118-132: reference_id is copied from the record
PipeBuildPayload(record) == [reference_id |-> record.reference_id]

\* the header row of the failure log, line 101
FailureLogHeader == <<"file", "reference_id", "error_message", "payload">>

\* FAILURE_LOG_FILE before anything wrote to it: missing, or empty
MissingFile == [exists |-> FALSE, rows |-> <<>>]
EmptyFile == [exists |-> TRUE, rows |-> <<>>]

\* a header check that takes every file for a new one
ensureFailureLogHeader_Always(file) ==
  [exists |-> TRUE, rows |-> Append(file.rows, FailureLogHeader)]

\* ensureFailureLogHeader, lines 99-104
ensureFailureLogHeader(file) ==
  IF ~file.exists \/ Len(file.rows) = 0
    THEN [exists |-> TRUE, rows |-> Append(file.rows, FailureLogHeader)]
    ELSE file

\* appendFailure, lines 106-110
appendFailure(file, row) ==
  [exists |-> TRUE, rows |-> Append(ensureFailureLogHeader(file).rows, row)]

\* a record loop that logs a rejected POST only
PipeLogsFailure_NotOkOnly(outcome) == outcome = "failed"

\* main, lines 179-199: the outcomes after which appendFailure is called
PipeLogsFailure(outcome) == outcome # "ok"

\* a record loop without its try and catch: a throw ends the job
PipeNextPc_Uncaught(outcome) ==
  IF outcome = "threw" THEN "pipeDone"
  ELSE IF pipeRow < pipeRows[pipeFile] THEN "pipeRecord" ELSE "pipeFile"

\* a loop that gives up the rest of a file when one of its records fails
PipeNextPc_NextFileOnFailure(outcome) ==
  IF outcome = "ok" /\ pipeRow < pipeRows[pipeFile] THEN "pipeRecord" ELSE "pipeFile"

\* main, lines 175-203: where the job goes after a record, whatever its outcome
PipeNextPc(outcome) ==
  IF pipeRow < pipeRows[pipeFile] THEN "pipeRecord" ELSE "pipeFile"

PipeStart ==
  /\ pipeDryRun \in BOOLEAN
  /\ pipeToken \in BOOLEAN
  /\ failureFile \in {MissingFile, EmptyFile}
  /\ pipeLast = <<>>
  /\ pipeRows \in [1..NumFiles -> 0..MaxRows]
  /\ pipeFile = 1
  /\ pipeRow = 1
  /\ pipeAttempted = <<>>
  /\ failureLog = <<>>

PipeIdle ==
  /\ pipeDryRun = FALSE
  /\ pipeToken = FALSE
  /\ failureFile = MissingFile
  /\ pipeLast = <<>>
  /\ pipeRows = <<>>
  /\ pipeFile = 1
  /\ pipeRow = 1
  /\ pipeAttempted = <<>>
  /\ failureLog = <<>>

\* lines 69-72: a live run without a token ends at once with exit code 1
PipeConfig ==
  /\ UNCHANGED <<glVars, spsVars, fcVars, depVars, incVars, fnVars, shVars, tabVars>>
  /\ job = "pipelines" /\ pc = "pipeConfig"
  /\ IF ~pipeToken /\ ~pipeDryRun
       THEN exitCode' = 1 /\ pc' = "pipeExit"
       ELSE pc' = "pipeFile" /\ UNCHANGED exitCode
  /\ UNCHANGED <<job, pipeVars>>

\* main, lines 171-173: the next file of the queue is read, or the queue ends
PipeReadFile ==
  /\ UNCHANGED <<glVars, spsVars, fcVars, depVars, incVars, fnVars, shVars, tabVars>>
  /\ job = "pipelines" /\ pc = "pipeFile"
  /\ IF pipeFile > Len(pipeRows)
       THEN pc' = "pipeDone" /\ UNCHANGED <<pipeFile, pipeRow>>
       ELSE IF pipeRows[pipeFile] = 0
         THEN pipeFile' = pipeFile + 1 /\ UNCHANGED <<pc, pipeRow>>
         ELSE pc' = "pipeRecord" /\ pipeRow' = 1 /\ UNCHANGED pipeFile
  /\ UNCHANGED <<job, exitCode, pipeDryRun, pipeToken, failureFile, pipeLast,
                 pipeRows, pipeAttempted, failureLog>>

\* main, lines 175-203: one record is built, posted, logged and throttled
PipeRecord ==
  /\ UNCHANGED <<glVars, spsVars, fcVars, depVars, incVars, fnVars, shVars, tabVars>>
  /\ job = "pipelines" /\ pc = "pipeRecord"
  /\ \E answer \in PipeAnswers :
       LET outcome == PipeOutcome(answer)
           payload == PipeBuildPayload([reference_id |-> RefIds[pipeRow]])
       IN
       /\ pipeAttempted' = Append(pipeAttempted, <<pipeFile, pipeRow, outcome>>)
       /\ pipeLast' = [logged |-> IF pipeDryRun THEN <<payload>> ELSE <<>>,
                       request |-> IF pipeDryRun THEN NoRequest
                                   ELSE [sent |-> TRUE, body |-> payload,
                                         answer |-> answer]]
       /\ failureLog' = IF PipeLogsFailure(outcome)
                          THEN Append(failureLog, <<pipeFile, pipeRow>>)
                          ELSE failureLog
       /\ failureFile' = IF PipeLogsFailure(outcome)
                           THEN appendFailure(failureFile,
                                  <<ChunkNames[pipeFile], payload.reference_id,
                                    outcome, payload.reference_id>>)
                           ELSE failureFile
       /\ pc' = PipeNextPc(outcome)
       /\ IF pc' = "pipeRecord"
            THEN pipeRow' = pipeRow + 1 /\ UNCHANGED pipeFile
            ELSE pipeFile' = pipeFile + 1 /\ UNCHANGED pipeRow
  /\ UNCHANGED <<job, exitCode, pipeDryRun, pipeToken, pipeRows>>

PipeInit == job = "pipelines" /\ pc = "pipeConfig" /\ exitCode = 0 /\ PipeStart

NextPipelines == PipeConfig \/ PipeReadFile \/ PipeRecord

---------------------------------------------------------------------------
(* appendFailure of the pipelines importer, called any number of times *)

\* rows a run may hand to appendFailure
FailureRows ==
  {<<ChunkNames[f], RefIds[r], msg, RefIds[r]>> :
     f \in 1..NumFiles, r \in 1..MaxRows, msg \in {"failed", "threw"}}

\* one call of appendFailure on the log file, lines 106-110
AppendFailureCall ==
  /\ UNCHANGED <<glVars, spsVars, fcVars, depVars, incVars, fnVars, shVars, tabVars>>
  /\ job = "failureLog" /\ pc = "appendFailure"
  /\ Len(failureFile.rows) <= MaxLogRows
  /\ \E row \in FailureRows : failureFile' = appendFailure(failureFile, row)
  /\ UNCHANGED <<job, pc, exitCode, pipeDryRun, pipeToken, pipeLast, pipeRows,
                 pipeFile, pipeRow, pipeAttempted, failureLog>>

FailureLogInit ==
  /\ job = "failureLog" /\ pc = "appendFailure" /\ exitCode = 0
  /\ pipeDryRun = FALSE
  /\ pipeToken = TRUE
  /\ failureFile \in {MissingFile, EmptyFile}
  /\ pipeLast = <<>>
  /\ pipeRows = <<>>
  /\ pipeFile = 1
  /\ pipeRow = 1
  /\ pipeAttempted = <<>>
  /\ failureLog = <<>>

NextFailureLog == AppendFailureCall

---------------------------------------------------------------------------
(* deployments uploader *)

\* a CSV row: one processRow accepts, or one it throws on (no base URL, no
\* token, no deployed_at, no service)
DepRowKinds == {"valid", "rejected"}

\* what postJson returns: a 2xx status, another status, or status 0 after a
\* network error
DepAnswers == {"2xx", "status", "error"}

\* a row loop whose catch gives up on the first rejected row
DepNextIdx_StopOnThrow(kind) == IF kind = "rejected" THEN depCount ELSE depIdx + 1

\* the for loop of lines 131-144: the index after a row, whatever happened
DepNextIdx(kind) == depIdx + 1

\* the cells of a row the uploader reads: token and the two commit columns
\* are empty or filled, deployed_at and service may also hold a blank
DepRows ==
  [token : {<<>>, <<"t">>},
   deployed_at : {<<>>, <<" ">>, <<"d">>},
   service : {<<>>, <<" ">>, <<"s">>},
   commit_sha : {<<>>, <<"c">>},
   merge_commit_shas : {<<>>, <<"m">>}]

\* parseMergeShas, lines 20-24: <<>> is undefined, <<parts>> a list
parseMergeShas(val) ==
  IF val = <<>> THEN <<>>
  ELSE LET parts == FilterBoolean(TrimAll(Split(val, {";", ",", "|"})))
       IN  IF Len(parts) > 0 THEN <<parts>> ELSE <<>>

\* a row check that asks a dry run for no token
DepRowError_NoTokenInDryRun(row) ==
  LET token == Trim(IF row.token # <<>> THEN row.token
                    ELSE IF depToken THEN <<"t">> ELSE <<>>)
  IN  IF token = <<>> /\ ~depDryRun THEN "Token not provided"
      ELSE IF row.deployed_at = <<>> THEN "Missing deployed_at"
      ELSE IF row.service = <<>> THEN "Missing service"
      ELSE ""

\* processRow, lines 94-98, and buildPayload, lines 64-65: the message of the
\* error the row makes them throw, "" if they throw none.  --base-url is given.
DepRowError(row) ==
  LET token == Trim(IF row.token # <<>> THEN row.token
                    ELSE IF depToken THEN <<"t">> ELSE <<>>)
  IN  IF token = <<>> THEN "Token not provided"
      ELSE IF row.deployed_at = <<>> THEN "Missing deployed_at"
      ELSE IF row.service = <<>> THEN "Missing service"
      ELSE ""

\* buildPayload, lines 67-74, of a row it does not throw on; an optional
\* field is <<>> when the payload has no such key and <<value>> when it has
DepBuildPayload(row) ==
  [deployed_at |-> Trim(row.deployed_at),
   service |-> Trim(row.service),
   commit_sha |-> IF row.commit_sha # <<>> THEN <<Trim(row.commit_sha)>> ELSE <<>>,
   merge_commit_shas |-> parseMergeShas(row.merge_commit_shas)]

DepKind(row) == IF DepRowError(row) # "" THEN "rejected" ELSE "valid"

DepStart ==
  /\ depDryRun \in BOOLEAN
  /\ depToken \in BOOLEAN
  /\ depLast = <<>>
  /\ depCount \in 0..MaxDepRows
  /\ depIdx = 0
  /\ failures = 0
  /\ depResults = <<>>

DepIdle ==
  /\ depDryRun = FALSE
  /\ depToken = FALSE
  /\ depLast = <<>>
  /\ depCount = 0
  /\ depIdx = 0
  /\ failures = 0
  /\ depResults = <<>>

\* lines 125-128: an empty CSV ends the job with exit code 1
DepEmpty ==
  /\ UNCHANGED <<glVars, spsVars, fcVars, pipeVars, incVars, fnVars, shVars, tabVars>>
  /\ job = "deployments" /\ pc = "depRead"
  /\ depCount = 0
  /\ exitCode' = 1
  /\ pc' = "depExit"
  /\ UNCHANGED <<job, depVars>>

\* lines 123-130: the CSV holds rows
DepRead ==
  /\ UNCHANGED <<glVars, spsVars, fcVars, pipeVars, incVars, fnVars, shVars, tabVars>>
  /\ job = "deployments" /\ pc = "depRead"
  /\ depCount > 0
  /\ pc' = "depRow"
  /\ UNCHANGED <<job, exitCode, depVars>>

\* lines 131-144 and processRow, lines 93-105: one row
DepRow ==
  /\ UNCHANGED <<glVars, spsVars, fcVars, pipeVars, incVars, fnVars, shVars, tabVars>>
  /\ job = "deployments" /\ pc = "depRow"
  /\ depIdx < depCount
  /\ \E row \in DepRows :
     \* the sink answers only a row for which a request is made
     \E answer \in IF DepKind(row) = "rejected" \/ depDryRun
                     THEN {"2xx"} ELSE DepAnswers :
       LET kind == DepKind(row)
           result == IF kind = "rejected" THEN "ERROR"
                     ELSE IF depDryRun \/ answer = "2xx" THEN "OK" ELSE "FAIL"
       IN
       /\ kind \in DepRowKinds
       /\ depResults' = Append(depResults, result)
       /\ depLast' = [row |-> row,
                      error |-> DepRowError(row),
                      \* lines 135, 138, 142: the log line of the row holds
                      \* its number and status or message, never the payload
                      logged |-> <<>>,
                      request |-> IF kind = "rejected" \/ depDryRun THEN NoRequest
                                  ELSE [sent |-> TRUE, body |-> DepBuildPayload(row),
                                        answer |-> answer]]
       /\ failures' = IF result = "OK" THEN failures ELSE failures + 1
       /\ depIdx' = DepNextIdx(kind)
  /\ UNCHANGED <<job, pc, exitCode, depDryRun, depToken, depCount>>

\* lines 146-147: the summary and the exit code
DepExit ==
  /\ UNCHANGED <<glVars, spsVars, fcVars, pipeVars, incVars, fnVars, shVars, tabVars>>
  /\ job = "deployments" /\ pc = "depRow"
  /\ depIdx >= depCount
  /\ exitCode' = IF failures > 0 THEN 1 ELSE 0
  /\ pc' = "depExit"
  /\ UNCHANGED <<job, depVars>>

DepInit == job = "deployments" /\ pc = "depRead" /\ exitCode = 0 /\ DepStart

NextDeployments == DepEmpty \/ DepRead \/ DepRow \/ DepExit

---------------------------------------------------------------------------
(* incidents importer *)

\* reference_id cells of the CSV: an empty one and a filled one
IncReferenceIds == {"", "INC-1"}

\* what one POST to the DX API does: a 2xx, another status, or a throw
IncAnswers == {"2xx", "status", "throw"}

\* how long the sink takes to answer a POST, in ms
SinkLatencies == {0, SinkLatency}

\* main, line 152 (and line 169 of pipelinesBackfill.js, which is the same
\* expression): Math.max(0, Math.floor(1000 / Math.max(1, RPS)))
DelayMs(rps) == Max(0, 1000 \div Max(1, rps))

\* buildPayload, lines 124-136: reference_id is copied from the row as it is
IncBuildPayload(row) == [reference_id |-> row.reference_id]

IncStart ==
  /\ incDryRun \in BOOLEAN
  /\ RPS \in 1..MaxRPS
  /\ incCount \in 0..MaxIncRows
  /\ incIdx = 0
  /\ now = 0
  /\ callStarts = <<>>
  /\ incLast = <<>>

IncIdle ==
  /\ incDryRun = FALSE
  /\ RPS = 1
  /\ incCount = 0
  /\ incIdx = 0
  /\ now = 0
  /\ callStarts = <<>>
  /\ incLast = <<>>

\* main, lines 154-176: one row is built, printed, posted unless the run is a
\* dry run, and followed by the throttle sleep
IncRow ==
  /\ UNCHANGED <<glVars, spsVars, fcVars, pipeVars, depVars, fnVars, shVars, tabVars>>
  /\ job = "incidents" /\ pc = "incRow"
  /\ incIdx < incCount
  /\ \E ref \in IncReferenceIds, answer \in IncAnswers, latency \in SinkLatencies :
       LET payload == IncBuildPayload([reference_id |-> ref]) IN
       /\ incLast' = [row |-> [reference_id |-> ref],
                      preview |-> payload,
                      request |-> IF incDryRun THEN NoRequest
                                  ELSE [sent |-> TRUE, body |-> payload,
                                        answer |-> answer]]
       /\ callStarts' = IF incDryRun THEN callStarts ELSE Append(callStarts, now)
       /\ now' = now + (IF incDryRun THEN 0 ELSE latency) + DelayMs(RPS)
  /\ incIdx' = incIdx + 1
  /\ UNCHANGED <<job, pc, exitCode, incDryRun, RPS, incCount>>

\* main, line 178: every row was processed
IncDone ==
  /\ UNCHANGED <<glVars, spsVars, fcVars, pipeVars, depVars, fnVars, shVars, tabVars>>
  /\ job = "incidents" /\ pc = "incRow"
  /\ incIdx >= incCount
  /\ pc' = "incDone"
  /\ UNCHANGED <<job, exitCode, incVars>>

IncInit == job = "incidents" /\ pc = "incRow" /\ exitCode = 0 /\ IncStart

NextIncidents == IncRow \/ IncDone

---------------------------------------------------------------------------
(* The pure functions of the scripts, one call each *)

\* ---- numericSortFiles of the pipelines importer.  A file name is a string
\* whose last element stands for its extension.
FileNames ==
  { <<"c", "_", "1", ".csv">>, <<"c", "_", "2", ".csv">>,
    <<"c", "_", "1", "0", ".csv">>, <<"c", ".csv">>,
    <<"c", "_", "3", ".CSV">>, <<"n", "_", "1", ".txt">>,
    <<"a", "9", "b", "4", ".csv">>, <<"c", "_", "0", "7", ".csv">> }

\* what fs.readdirSync may return: distinct names in any order
Listings ==
  UNION { {l \in [1..n -> FileNames] : \A i, j \in 1..n : i # j => l[i] # l[j]} :
            n \in 0..MaxListing }

\* f.toLowerCase().endsWith('.csv'), line 93
IsCsv(name) == name # <<>> /\ name[Len(name)] \in {".csv", ".CSV"}

\* name.match(/\d+/), line 94: the first run of digits of the name, <<>> if
\* it has no digit
RECURSIVE DigitsPrefix(_)
DigitsPrefix(str) ==
  IF str # <<>> /\ IsDigit(Head(str))
    THEN <<Head(str)>> \o DigitsPrefix(Tail(str)) ELSE <<>>

RECURSIVE FirstDigits(_)
FirstDigits(name) ==
  IF name = <<>> THEN <<>>
  ELSE IF IsDigit(Head(name)) THEN DigitsPrefix(name)
  ELSE FirstDigits(Tail(name))

\* a sort key that reads one digit only
FileNumber_FirstDigit(name) ==
  IF FirstDigits(name) = <<>> THEN 0 ELSE DigitValue(Head(FirstDigits(name)))

\* Number((name.match(/\d+/) || ['0'])[0]), line 94
FileNumber(name) ==
  IF FirstDigits(name) = <<>> THEN NumberOfDigits(<<"0">>)
  ELSE NumberOfDigits(FirstDigits(name))

\* Array.prototype.sort with (a, b) => a.number - b.number, line 95: a stable
\* sort, as the language requires
RECURSIVE InsertByNumber(_, _)
InsertByNumber(sorted, name) ==
  IF sorted = <<>> THEN <<name>>
  ELSE LET last == sorted[Len(sorted)] IN
       IF FileNumber(last) <= FileNumber(name) THEN Append(sorted, name)
       ELSE Append(InsertByNumber(SubSeq(sorted, 1, Len(sorted) - 1), name), last)

RECURSIVE SortByNumber(_)
SortByNumber(names) ==
  IF names = <<>> THEN <<>>
  ELSE InsertByNumber(SortByNumber(SubSeq(names, 1, Len(names) - 1)),
                      names[Len(names)])

\* path.join(dir, name), line 96
PathJoin(name) == <<"Backfill", "/">> \o name

\* numericSortFiles, lines 91-97
numericSortFiles(listing) ==
  LET sorted == SortByNumber(SelectSeq(listing, IsCsv))
  IN  [k \in 1..Len(sorted) |-> PathJoin(sorted[k])]

\* ---- parseServices of setPullServices and of the incidents importer.  The
\* items of a services cell, and the cell as text: the JSON text of the items
\* or the items joined by a delimiter.
ServiceItems == {<<>>, <<" ">>, <<"a">>, <<"b">>, <<" ", "a">>, <<"b", " ">>}

ServiceLists == UNION {[1..n -> ServiceItems] : n \in 0..MaxServices}

Delimiters == {",", ";", "|"}

\* JSON.stringify of a list of strings (none holds a quote or a backslash)
JsonText(items) ==
  <<"[">> \o Join([k \in 1..Len(items) |-> <<"\"">> \o items[k] \o <<"\"">>], ",")
          \o <<"]">>

ServiceCells ==
  {[form |-> "json", items |-> items, text |-> JsonText(items)] :
     items \in ServiceLists}
  \cup
  {[form |-> d, items |-> items, text |-> Join(items, d)] :
     items \in ServiceLists \ {<<>>}, d \in Delimiters}

\* a string between double quotes
IsQuoted(str) == Len(str) >= 2 /\ str[1] = "\"" /\ str[Len(str)] = "\""
Unquote(str) == SubSeq(str, 2, Len(str) - 1)

\* JSON.parse of a text that starts with a bracket, for the arrays of plain
\* strings: [ok, value]; ok is FALSE where JSON.parse throws
JsonParse(text) ==
  IF Len(text) < 2 \/ text[1] # "[" \/ text[Len(text)] # "]"
    THEN [ok |-> FALSE, value |-> <<>>]
  ELSE LET inner == Trim(SubSeq(text, 2, Len(text) - 1))
           parts == TrimAll(Split(inner, {","}))
       IN  IF inner = <<>> THEN [ok |-> TRUE, value |-> <<>>]
           ELSE IF \A k \in 1..Len(parts) :
                     /\ IsQuoted(parts[k])
                     /\ \A j \in 2..(Len(parts[k]) - 1) : parts[k][j] # "\""
             THEN [ok |-> TRUE, value |-> [k \in 1..Len(parts) |-> Unquote(parts[k])]]
           ELSE [ok |-> FALSE, value |-> <<>>]

\* unique, lines 250-259
unique(arr) == Dedup(FilterBoolean(TrimAll(arr)))

\* x.trim().replace(/^"(.*)"$/, "$1"), line 293
StripQuotes(str) == IF IsQuoted(Trim(str)) THEN Unquote(Trim(str)) ELSE Trim(str)

\* tryJson of parseServices, lines 270-279: <<>> is null, <<arr>> an array
SpsTryJson(val) ==
  LET str == Trim(val) IN
  IF str # <<>> /\ str[1] = "[" /\ str[Len(str)] = "]" /\ JsonParse(str).ok
    THEN <<JsonParse(str).value>> ELSE <<>>

\* parseServices of setPullServices, lines 269-298, of a row that has a
\* services column and no service column
parseServices(primary) ==
  LET j1 == SpsTryJson(primary)
      out1 == IF j1 # <<>> THEN j1[1] ELSE <<>>
      str == Trim(primary)
      out3 == IF Len(out1) = 0 /\ Len(str) > 0
                THEN FilterBoolean([k \in 1..Len(Split(str, {"|", ","})) |->
                                      StripQuotes(Split(str, {"|", ","})[k])])
                ELSE out1
  IN  unique(out3)

\* parseServices of the incidents importer, part_001 lines 113-122
IncParseServices(val) ==
  LET str == Trim(val) IN
  IF val = <<>> \/ str = <<>> THEN <<>>
  ELSE IF str[1] = "["
    THEN IF JsonParse(str).ok THEN JsonParse(str).value ELSE <<>>
  ELSE FilterBoolean(TrimAll(Split(str, {";", ",", "|"})))

\* ---- parseRow of setPullServices.  The cells of a CSV row:
ParseRowInputs ==
  [repository : {<<>>, <<" ">>, <<"r">>},
   pull_number : {<<>>, <<" ">>, <<"7">>, <<"x">>},
   services : {<<>>, <<"a">>, <<"[", "]">>, <<"a", "|", "a">>}]

\* Number(str) of a trimmed cell: 0 for the empty string, the value of a run
\* of digits, and otherwise NaN, which is not finite
ToNumber(str) ==
  IF str = <<>> THEN [finite |-> TRUE, value |-> 0]
  ELSE IF \A k \in 1..Len(str) : IsDigit(str[k])
    THEN [finite |-> TRUE, value |-> NumberOfDigits(str)]
  ELSE [finite |-> FALSE, value |-> 0]

\* parseRow, lines 300-306: <<>> is null, <<group>> an accepted row
parseRow(row) ==
  LET repository == Trim(row.repository)
      pull_number == ToNumber(Trim(row.pull_number))
      services == parseServices(row.services)
  IN  IF repository = <<>> \/ ~pull_number.finite \/ Len(services) = 0
        THEN <<>>
        ELSE <<[repository |-> repository, pull_number |-> pull_number.value,
                services |-> services]>>

\* ---- toIso8601Z of the incidents importer (unnamed/part_001, lines 94-111)

\* timestamp cells of the CSV: a date, then nothing, or a separator, a time
\* and nothing or a zone marker; and cells of no supported shape
IsoDate == <<"2", "0", "2", "4", "-", "0", "1", "-", "3", "1">>
IsoSeparators == {<<" ">>, <<"T">>, <<"t">>}
IsoTimes ==
  { <<"0", "9", ":", "3", "0">>,
    <<"0", "9", ":", "3", "0", ":", "1", "5">>,
    <<"0", "9", ":", "3", "0", ":", "1", "5", ".", "2", "5">> }
IsoZones ==
  { <<>>, <<"Z">>, <<"z">>, <<"+", "0", "2", ":", "0", "0">>,
    <<"-", "0", "5", "3", "0">> }
TimestampCells ==
  {[text |-> IsoDate, supported |-> TRUE]}
  \cup {[text |-> IsoDate \o s \o t \o z, supported |-> TRUE] :
          s \in IsoSeparators, t \in IsoTimes, z \in IsoZones}
  \cup {[text |-> t, supported |-> FALSE] :
          t \in { <<>>, <<" ">>,
                  <<" ">> \o IsoDate \o <<" ">>,
                  <<"3", "1", "/", "0", "1", "/", "2", "0", "2", "4">>,
                  <<"t", "o", "d", "a", "y">>,
                  IsoDate \o <<"Z">> }}

\* one character against one element of a regular expression: \d, [+-], a
\* T under the i flag, or the character itself
IsoClass(p, c) ==
  IF p = "d" THEN IsDigit(c)
  ELSE IF p = "s" THEN c \in {"+", "-"}
  ELSE IF p = "T" THEN c \in {"T", "t"}
  ELSE c = p

\* ^pat$
MatchesPattern(str, pat) ==
  /\ Len(str) = Len(pat)
  /\ \A k \in 1..Len(pat) : IsoClass(pat[k], str[k])

\* ^pat(?:\.\d+)?$
MatchesWithFraction(str, pat) ==
  \/ MatchesPattern(str, pat)
  \/ /\ Len(str) >= Len(pat) + 2
     /\ MatchesPattern(SubSeq(str, 1, Len(pat)), pat)
     /\ str[Len(pat) + 1] = "."
     /\ \A k \in (Len(pat) + 2)..Len(str) : IsDigit(str[k])

\* pat$
EndsWithPattern(str, pat) ==
  /\ Len(str) >= Len(pat)
  /\ MatchesPattern(SubSeq(str, Len(str) - Len(pat) + 1, Len(str)), pat)

DatePattern == <<"d", "d", "d", "d", "-", "d", "d", "-", "d", "d">>
MinutesPattern == <<"d", "d", ":", "d", "d">>
SecondsPattern == MinutesPattern \o <<":", "d", "d">>

\* line 99: /t/i, and /[zZ]$/ or /[+-]\d{2}:?\d{2}$/
HasTimezone(v) ==
  /\ \E k \in 1..Len(v) : v[k] \in {"t", "T"}
  /\ \/ v[Len(v)] \in {"z", "Z"}
     \/ EndsWithPattern(v, <<"s", "d", "d", "d", "d">>)
     \/ EndsWithPattern(v, <<"s", "d", "d", ":", "d", "d">>)

\* String.prototype.replace(' ', 'T'): the first space only
ReplaceFirstSpace(str) ==
  IF \E k \in 1..Len(str) : str[k] = " "
    THEN LET k == CHOOSE i \in 1..Len(str) :
                    str[i] = " " /\ \A j \in 1..(i - 1) : str[j] # " "
         IN [i \in 1..Len(str) |-> IF i = k THEN "T" ELSE str[i]]
    ELSE str

\* a conversion that appends the marker to whatever it is given
toIso8601Z_AppendZ(val) == Trim(val) \o <<"Z">>

\* toIso8601Z, lines 94-111; <<>> stands for undefined
toIso8601Z(val) ==
  LET v == Trim(val) IN
  IF v = <<>> THEN <<>>
  ELSE IF HasTimezone(v) THEN v
  ELSE IF MatchesWithFraction(v, DatePattern \o <<" ">> \o SecondsPattern)
    THEN ReplaceFirstSpace(v) \o <<"Z">>
  ELSE IF MatchesPattern(v, DatePattern)
    THEN v \o <<"T", "0", "0", ":", "0", "0", ":", "0", "0", "Z">>
  ELSE IF MatchesWithFraction(v, DatePattern \o <<"T">> \o SecondsPattern)
    THEN v \o <<"Z">>
  ELSE IF MatchesPattern(v, DatePattern \o <<" ">> \o MinutesPattern)
    THEN ReplaceFirstSpace(v) \o <<":", "0", "0", "Z">>
  ELSE IF MatchesPattern(v, DatePattern \o <<"T">> \o MinutesPattern)
    THEN v \o <<":", "0", "0", "Z">>
  ELSE v

\* ---- readAndGroup of setPullServices (lines 308-327)

\* the rows of the CSV: two spellings of the pull request 7 of r, another
\* pull request of r, the pull request 7 of another repository, and rows
\* without a repository, with a pull_number that is no number, and without
\* services
CsvRow(repository, pull_number, services) ==
  [repository |-> repository, pull_number |-> pull_number, services |-> services]
CsvRows ==
  { CsvRow(<<"r">>, <<"7">>, <<"a">>),
    CsvRow(<<" ", "r">>, <<"0", "7">>, <<"b", "|", "a">>),
    CsvRow(<<"r">>, <<"7">>, <<"c", ",", "a">>),
    CsvRow(<<"r">>, <<"8">>, <<"a">>),
    CsvRow(<<"q">>, <<"7">>, <<"b">>),
    CsvRow(<<>>, <<"7">>, <<"a">>),
    CsvRow(<<"r">>, <<"x">>, <<"a">>),
    CsvRow(<<"r">>, <<"7">>, <<>>) }
CsvFiles == UNION {[1..n -> CsvRows] : n \in 0..MaxCsvRows}

\* String(num) of a whole number that is not negative
RECURSIVE NumberText(_)
NumberText(num) ==
  IF num < 10 THEN <<Digits[num + 1]>>
  ELSE NumberText(num \div 10) \o <<Digits[(num % 10) + 1]>>

\* a key that leaves the pull number out
keyFrom_RepositoryOnly(repo, num) == repo

\* keyFrom, lines 265-267
keyFrom(repo, num) == repo \o <<"#">> \o NumberText(num)

\* the "data" handler of readAndGroup, lines 315-320, for a row that parseRow
\* accepted as r; groups is the Map, as the list of its entries in insertion
\* order
SetAndPush(groups, r) ==
  LET key == keyFrom(r.repository, r.pull_number) IN
  IF \E k \in 1..Len(groups) : groups[k].key = key
    THEN [k \in 1..Len(groups) |->
            IF groups[k].key = key
              THEN [groups[k] EXCEPT !.services = @ \o r.services]
              ELSE groups[k]]
    ELSE Append(groups, [key |-> key, repository |-> r.repository,
                         pull_number |-> r.pull_number, services |-> r.services])

\* lines 313-321: the handler for the rows of the file in their order, given
\* what parseRow returns for each; a row for which it returns null is skipped
RECURSIVE GroupRows(_, _)
GroupRows(groups, parsed) ==
  IF parsed = <<>> THEN groups
  ELSE GroupRows(IF Head(parsed) = <<>> THEN groups
                 ELSE SetAndPush(groups, Head(parsed)[1]),
                 Tail(parsed))

\* readAndGroup, lines 308-327: the values of the Map, the services of each
\* made unique
readAndGroup(rows) ==
  LET groups == GroupRows(<<>>, [i \in 1..Len(rows) |-> parseRow(rows[i])]) IN
  [k \in 1..Len(groups) |->
     [repository |-> groups[k].repository,
      pull_number |-> groups[k].pull_number,
      services |-> unique(groups[k].services)]]

\* ---- the calls
FnStart ==
  /\ \/ fnName = "numericSortFiles" /\ fnInput \in Listings
     \/ fnName = "parseServices" /\ fnInput \in ServiceCells
     \/ fnName = "incidents.parseServices" /\ fnInput \in ServiceCells
     \/ fnName = "parseRow" /\ fnInput \in ParseRowInputs
     \/ fnName = "toIso8601Z" /\ fnInput \in TimestampCells
     \/ fnName = "readAndGroup" /\ fnInput \in CsvFiles
  /\ fnOutput = <<>>

FnIdle ==
  /\ fnName = ""
  /\ fnInput = <<>>
  /\ fnOutput = <<>>

NumericSortFilesCall ==
  /\ UNCHANGED <<glVars, spsVars, fcVars, pipeVars, depVars, incVars, shVars, tabVars>>
  /\ job = "functions" /\ pc = "call" /\ fnName = "numericSortFiles"
  /\ fnOutput' = numericSortFiles(fnInput)
  /\ pc' = "returned"
  /\ UNCHANGED <<job, exitCode, fnName, fnInput>>

ParseServicesCall ==
  /\ UNCHANGED <<glVars, spsVars, fcVars, pipeVars, depVars, incVars, shVars, tabVars>>
  /\ job = "functions" /\ pc = "call" /\ fnName = "parseServices"
  /\ fnOutput' = parseServices(fnInput.text)
  /\ pc' = "returned"
  /\ UNCHANGED <<job, exitCode, fnName, fnInput>>

IncParseServicesCall ==
  /\ UNCHANGED <<glVars, spsVars, fcVars, pipeVars, depVars, incVars, shVars, tabVars>>
  /\ job = "functions" /\ pc = "call" /\ fnName = "incidents.parseServices"
  /\ fnOutput' = IncParseServices(fnInput.text)
  /\ pc' = "returned"
  /\ UNCHANGED <<job, exitCode, fnName, fnInput>>

ParseRowCall ==
  /\ UNCHANGED <<glVars, spsVars, fcVars, pipeVars, depVars, incVars, shVars, tabVars>>
  /\ job = "functions" /\ pc = "call" /\ fnName = "parseRow"
  /\ fnOutput' = parseRow(fnInput)
  /\ pc' = "returned"
  /\ UNCHANGED <<job, exitCode, fnName, fnInput>>

ToIso8601ZCall ==
  /\ UNCHANGED <<glVars, spsVars, fcVars, pipeVars, depVars, incVars, shVars, tabVars>>
  /\ job = "functions" /\ pc = "call" /\ fnName = "toIso8601Z"
  /\ fnOutput' = toIso8601Z(fnInput.text)
  /\ pc' = "returned"
  /\ UNCHANGED <<job, exitCode, fnName, fnInput>>

ReadAndGroupCall ==
  /\ UNCHANGED <<glVars, spsVars, fcVars, pipeVars, depVars, incVars, shVars, tabVars>>
  /\ job = "functions" /\ pc = "call" /\ fnName = "readAndGroup"
  /\ fnOutput' = readAndGroup(fnInput)
  /\ pc' = "returned"
  /\ UNCHANGED <<job, exitCode, fnName, fnInput>>

FnInit == job = "functions" /\ pc = "call" /\ exitCode = 0 /\ FnStart

NextFunctions ==
  \/ NumericSortFilesCall
  \/ ParseServicesCall
  \/ IncParseServicesCall
  \/ ParseRowCall
  \/ ToIso8601ZCall
  \/ ReadAndGroupCall

---------------------------------------------------------------------------
(* The setPullServices importer: the shards of main and their workers     *)
(* (gitlabOnboardingBackfill.js, lines 329-333, 382 and 431-440).  A       *)
(* worker is followed from group to group; what it does for one group is   *)
(* the subject of the setPullServices job above.                           *)

\* line 382: the value taken when --concurrency parses to 0 or to NaN
DefaultConcurrency == 6

\* parseInt(args.concurrency, 10): a negative number, 0, a positive number,
\* or NaN for a text that is no number
ConcurrencyArgs == {Num(v) : v \in -2..MaxConcurrency} \cup {JsNaN}

\* line 382: parseInt(args.concurrency, 10) || 6
CONCURRENCY ==
  IF shArg.finite /\ shArg.value # 0 THEN shArg.value ELSE DefaultConcurrency

\* Math.ceil(a / b) for a >= 0 and b # 0
CeilDiv(a, b) == IF b > 0 THEN (a + b - 1) \div b ELSE -(a \div (-b))

\* a shard size that rounds down
shardSize_Floor ==
  IF CONCURRENCY > 0 THEN Max(1, shCount \div CONCURRENCY) ELSE 1

\* line 432: Math.ceil(all.length / CONCURRENCY) || 1
shardSize ==
  LET q == CeilDiv(shCount, CONCURRENCY) IN IF q = 0 THEN 1 ELSE q

\* line 431: groups.slice(), the groups in the order of readAndGroup
AllGroups == [g \in 1..shCount |-> g]

\* what a worker does with its shard in a dry run, lines 386-407: every
\* group is previewed and written to the success log, with no await
RECURSIVE DryEvents(_)
DryEvents(items) ==
  IF items = <<>> THEN <<>>
  ELSE <<<<"begin", Head(items)>>, <<"end", Head(items)>>>> \o DryEvents(Tail(items))

\* what the workers do when shards.map calls them one after the other: in a
\* dry run each goes through its shard, in a live run each sends the request
\* of its first group and awaits the answer
RECURSIVE MapEvents(_, _)
MapEvents(shards, dry) ==
  IF shards = <<>> THEN <<>>
  ELSE (IF dry THEN DryEvents(Head(shards))
        ELSE IF Head(shards) = <<>> THEN <<>>
        ELSE <<<<"begin", Head(shards)[1]>>>>)
       \o MapEvents(Tail(shards), dry)

ShStart ==
  /\ shArg \in ConcurrencyArgs
  /\ shDryRun \in BOOLEAN
  /\ shCount \in 0..MaxShardGroups
  /\ shI = 0
  /\ shShards = <<>>
  /\ shDone = <<>>
  /\ shBusy = {}
  /\ shEvents = <<>>

ShIdle ==
  /\ shArg = Num(1)
  /\ shDryRun = FALSE
  /\ shCount = 0
  /\ shI = 0
  /\ shShards = <<>>
  /\ shDone = <<>>
  /\ shBusy = {}
  /\ shEvents = <<>>

\* chunk, lines 329-333: one turn of the loop.  The model follows the loop
\* for one turn more than there are groups.
ShChunk ==
  /\ UNCHANGED <<glVars, spsVars, fcVars, pipeVars, depVars, incVars, fnVars, tabVars>>
  /\ job = "shards" /\ pc = "chunk"
  /\ shI < shCount
  /\ Len(shShards) <= shCount
  /\ shShards' = Append(shShards, JsSlice(AllGroups, shI, shI + shardSize))
  /\ shI' = shI + shardSize
  /\ UNCHANGED <<job, pc, exitCode, shArg, shDryRun, shCount, shDone, shBusy,
                 shEvents>>

\* line 434: the loop of chunk has ended, and shards.map(worker) calls the
\* workers one after the other
ShMap ==
  /\ UNCHANGED <<glVars, spsVars, fcVars, pipeVars, depVars, incVars, fnVars, tabVars>>
  /\ job = "shards" /\ pc = "chunk"
  /\ shI >= shCount
  /\ shEvents' = MapEvents(shShards, shDryRun)
  /\ shDone' = [k \in 1..Len(shShards) |-> IF shDryRun THEN Len(shShards[k]) ELSE 0]
  /\ shBusy' = IF shDryRun THEN {}
               ELSE {k \in 1..Len(shShards) : shShards[k] # <<>>}
  /\ pc' = "workers"
  /\ UNCHANGED <<job, exitCode, shArg, shDryRun, shCount, shI, shShards>>

\* worker, lines 409-427 and 386: the call of withRetry settles, the row of
\* the group is written to the success or to the error log, and the worker
\* goes on to the next group of its shard
ShAnswer ==
  /\ UNCHANGED <<glVars, spsVars, fcVars, pipeVars, depVars, incVars, fnVars, tabVars>>
  /\ job = "shards" /\ pc = "workers"
  /\ \E k \in shBusy :
       LET items == shShards[k]
           done == shDone[k] + 1
       IN
       /\ shDone' = [shDone EXCEPT ![k] = done]
       /\ IF done < Len(items)
            THEN /\ shEvents' = shEvents \o <<<<"end", items[done]>>,
                                              <<"begin", items[done + 1]>>>>
                 /\ UNCHANGED shBusy
            ELSE /\ shEvents' = Append(shEvents, <<"end", items[done]>>)
                 /\ shBusy' = shBusy \ {k}
  /\ UNCHANGED <<job, pc, exitCode, shArg, shDryRun, shCount, shI, shShards>>

\* lines 434-439: every worker has returned; the logs are closed and "Done"
\* is printed
ShEnd ==
  /\ UNCHANGED <<glVars, spsVars, fcVars, pipeVars, depVars, incVars, fnVars, tabVars>>
  /\ job = "shards" /\ pc = "workers"
  /\ shBusy = {}
  /\ pc' = "Done"
  /\ UNCHANGED <<job, exitCode, shVars>>

ShInit == job = "shards" /\ pc = "chunk" /\ exitCode = 0 /\ ShStart

NextShards == ShChunk \/ ShMap \/ ShAnswer \/ ShEnd

---------------------------------------------------------------------------
(* The Tabnine usage importer (ai-tools/tabnine/DxTabnineAutomation.js):   *)
(* the batches of main, lines 141-143                                      *)

\* line 53: the chunk size when neither --chunk-size nor CHUNK_SIZE is given
DefaultChunkSize == 100

\* ARGS.chunkSize, line 41: absent, or Number(val) of the flag's value
ChunkFlags == {<<>>, <<JsNaN>>} \cup {<<Num(v)>> : v \in -1..MaxChunkSize}

\* process.env.CHUNK_SIZE, line 53: unset, or what parseInt makes of it
ChunkEnvs == {<<>>, <<JsNaN>>, <<Num(2)>>}

\* line 53
CHUNK_SIZE ==
  IF tabFlag # <<>> /\ tabFlag[1].finite THEN tabFlag[1]
  ELSE IF tabEnv = <<>> THEN Num(DefaultChunkSize)
  ELSE tabEnv[1]

\* line 136: the rows fetched, in their order
AllTabRows == [r \in 1..tabRows |-> r]

\* line 141: i < rows.length, which is false of NaN
TabLoopGoesOn == tabI.finite /\ tabI.value < tabRows

TabStart ==
  /\ tabFlag \in ChunkFlags
  /\ tabEnv \in ChunkEnvs
  /\ tabDryRun \in BOOLEAN
  /\ tabRows \in 0..MaxTabRows
  /\ tabI = Num(0)
  /\ tabBatches = <<>>

TabIdle ==
  /\ tabFlag = <<>>
  /\ tabEnv = <<>>
  /\ tabDryRun = FALSE
  /\ tabRows = 0
  /\ tabI = Num(0)
  /\ tabBatches = <<>>

\* main, lines 141-143, and insertChunk, lines 101-122: one turn of the
\* loop.  An empty slice makes insertChunk return at once; a query that
\* throws is caught by main, lines 146-148.  The model follows i down to
\* minus the number of rows.
TabBatch ==
  /\ UNCHANGED <<glVars, spsVars, fcVars, pipeVars, depVars, incVars, fnVars, shVars>>
  /\ job = "tabnine" /\ pc = "tabLoop"
  /\ TabLoopGoesOn
  /\ tabI.value > -MaxTabRows
  /\ LET batch == IF CHUNK_SIZE.finite
                    THEN JsSlice(AllTabRows, tabI.value, tabI.value + CHUNK_SIZE.value)
                    ELSE <<>>
     IN  \E queryOk \in IF batch = <<>> \/ tabDryRun THEN {TRUE} ELSE BOOLEAN :
           IF queryOk
             THEN /\ tabBatches' = IF batch = <<>> THEN tabBatches
                                   ELSE Append(tabBatches, batch)
                  /\ tabI' = IF CHUNK_SIZE.finite
                               THEN Num(tabI.value + CHUNK_SIZE.value) ELSE JsNaN
                  /\ UNCHANGED <<pc, exitCode>>
             ELSE /\ exitCode' = 1
                  /\ pc' = "tabDone"
                  /\ UNCHANGED <<tabI, tabBatches>>
  /\ UNCHANGED <<job, tabFlag, tabEnv, tabDryRun, tabRows>>

\* main, lines 141 and 145: the loop ends and the import is complete
TabEnd ==
  /\ UNCHANGED <<glVars, spsVars, fcVars, pipeVars, depVars, incVars, fnVars, shVars>>
  /\ job = "tabnine" /\ pc = "tabLoop"
  /\ ~TabLoopGoesOn
  /\ pc' = "tabDone"
  /\ UNCHANGED <<job, exitCode, tabVars>>

TabInit == job = "tabnine" /\ pc = "tabLoop" /\ exitCode = 0 /\ TabStart

NextTabnine == TabBatch \/ TabEnd

---------------------------------------------------------------------------
(* One invocation of one script *)

OthersIdle == IncIdle /\ FnIdle /\ ShIdle /\ TabIdle

InitGitlab == GlStart /\ SpsIdle /\ FcIdle /\ PipeIdle /\ DepIdle /\ OthersIdle
InitSps == SpsInit /\ GlIdle /\ FcIdle /\ PipeIdle /\ DepIdle /\ OthersIdle
InitConfluence == FcInit /\ GlIdle /\ SpsIdle /\ PipeIdle /\ DepIdle /\ OthersIdle
InitPipelines == PipeInit /\ GlIdle /\ SpsIdle /\ FcIdle /\ DepIdle /\ OthersIdle
InitDeployments == DepInit /\ GlIdle /\ SpsIdle /\ FcIdle /\ PipeIdle /\ OthersIdle
InitIncidents ==
  /\ IncInit /\ GlIdle /\ SpsIdle /\ FcIdle /\ PipeIdle /\ DepIdle /\ FnIdle
  /\ ShIdle /\ TabIdle
InitFunctions ==
  /\ FnInit /\ GlIdle /\ SpsIdle /\ FcIdle /\ PipeIdle /\ DepIdle /\ IncIdle
  /\ ShIdle /\ TabIdle
InitFailureLog ==
  FailureLogInit /\ GlIdle /\ SpsIdle /\ FcIdle /\ DepIdle /\ OthersIdle

SpecGitlab == InitGitlab /\ [][NextGitlab]_vars

SpecSps == InitSps /\ [][NextSps]_vars

SpecPipelines == InitPipelines /\ [][NextPipelines]_vars

SpecDeployments == InitDeployments /\ [][NextDeployments]_vars

SpecIncidents == InitIncidents /\ [][NextIncidents]_vars

SpecFunctions == InitFunctions /\ [][NextFunctions]_vars

SpecFailureLog == InitFailureLog /\ [][NextFailureLog]_vars

InitShards ==
  /\ ShInit /\ GlIdle /\ SpsIdle /\ FcIdle /\ PipeIdle /\ DepIdle /\ IncIdle
  /\ FnIdle /\ TabIdle
InitTabnine ==
  /\ TabInit /\ GlIdle /\ SpsIdle /\ FcIdle /\ PipeIdle /\ DepIdle /\ IncIdle
  /\ FnIdle /\ ShIdle

SpecShards == InitShards /\ [][NextShards]_vars

\* the event loop runs whatever is ready to run: a loop that can take a
\* turn takes it, and an answer that is awaited arrives
FairSpecShards == SpecShards /\ WF_vars(NextShards)

FairSpecTabnine == InitTabnine /\ [][NextTabnine]_vars /\ WF_vars(NextTabnine)

\* the three scripts that loop over records and catch their failures
InitRecordLoops == InitGitlab \/ InitPipelines \/ InitDeployments
NextRecordLoops == NextGitlab \/ NextPipelines \/ NextDeployments
SpecRecordLoops == InitRecordLoops /\ [][NextRecordLoops]_vars

\* the three scripts that take a token and have a dry-run mode
InitTokenChecks == InitDeployments \/ InitPipelines \/ InitSps
NextTokenChecks == NextDeployments \/ NextPipelines \/ NextSps
SpecTokenChecks == InitTokenChecks /\ [][NextTokenChecks]_vars

Init ==
  \/ InitGitlab
  \/ InitSps
  \/ InitConfluence
  \/ InitPipelines
  \/ InitDeployments
  \/ InitIncidents
  \/ InitFunctions
  \/ InitFailureLog
  \/ InitShards
  \/ InitTabnine

Next ==
  \/ NextGitlab
  \/ NextSps
  \/ NextConfluence
  \/ NextPipelines
  \/ NextDeployments
  \/ NextIncidents
  \/ NextFunctions
  \/ NextFailureLog
  \/ NextShards
  \/ NextTabnine

Spec == Init /\ [][Next]_vars

---------------------------------------------------------------------------
(* Properties of the GitLab onboarding backfill *)

\* the units of a run, by index, and their group-major order
Units == {<<g, u>> : g \in 0..(Len(GROUPS) - 1), u \in 0..(Len(USERS) - 1)}
Before(p, q) == p[1] < q[1] \/ (p[1] = q[1] /\ p[2] < q[2])
StartPos == <<startGroupIdx, startUserIdx>>
CurPos == <<gi, ui>>
InUnit == job = "gitlab" /\ pc \in {"fetch", "post", "throttle"}
BetweenUnits == job = "gitlab" /\ pc \in {"loop", "finish"} /\ completed # {}
Distinct(arr) == \A i, j \in 1..Len(arr) : arr[i] = arr[j] => i = j
Numeric(arr) == \A i \in 1..Len(arr) : arr[i] # NaN
Parses(f) == f.exists /\ f.g # "" /\ f.u # ""

\* C3 as stated: at every crash point the marker on disk names a completed
\* unit, never the unit whose fetch or POSTs are in progress.
C3_MarkerNamesCompletedUnit ==
  InUnit /\ resumeFile.exists => markPos # CurPos /\ markPos \in completed

\* C3 as amended: the marker is written at the head of a unit, before its
\* fetch.  Inside a unit the marker on disk names that unit, and the units of
\* this run before it are complete; between two units it names the unit
\* just completed.
C3_MarkerNamesUnitInFlight ==
  /\ InUnit =>
        /\ resumeFile = [exists |-> TRUE, g |-> GROUPS[gi + 1], u |-> USERS[ui + 1]]
        /\ markPos = CurPos
        /\ CurPos \notin completed
        /\ completed = {p \in Units : ~Before(p, StartPos) /\ Before(p, CurPos)}
  /\ BetweenUnits =>
        /\ markPos \in completed
        /\ \A p \in completed : ~Before(markPos, p)
        /\ resumeFile = [exists |-> TRUE, g |-> GROUPS[markPos[1] + 1],
                         u |-> USERS[markPos[2] + 1]]

C3_Witness == InUnit /\ pc = "post" /\ completed # {} /\ markPos = CurPos

\* what C4 says of a run that resumed from the marker an earlier run left
\* at unit s
ResumedFrom(s) ==
  /\ StartPos = s
  /\ pc \in {"loop", "fetch", "post", "throttle"} =>
        completed = {p \in Units : ~Before(p, s) /\ Before(p, CurPos)}
  /\ pc = "finish" \/ (pc = "exit" /\ success) =>
        completed = {p \in Units : ~Before(p, s)}
  /\ pc = "exit" /\ ~success =>
        completed = {p \in Units : ~Before(p, s) /\ Before(p, CurPos)}

\* C4 as stated: a run that resumes starts exactly at the unit at which the
\* marker was written; no unit before it is processed again, and every unit
\* from it on is processed, in order.
C4_ResumeStartsAtMarkedUnit ==
  job = "gitlab" /\ pc # "start" /\ startup.resumed => ResumedFrom(startup.marked)

\* C4 as amended: the same, for a groups list and a users list that repeat
\* no entry and whose group ids are all numbers.
C4_ResumeStartsAtMarkedUnitOfDistinctLists ==
  job = "gitlab" /\ pc # "start" /\ startup.resumed
    /\ Distinct(GROUPS) /\ Numeric(GROUPS) /\ Distinct(USERS)
  => ResumedFrom(startup.marked)

C4_Witness ==
  /\ job = "gitlab" /\ pc = "exit" /\ success /\ startup.resumed
  /\ Distinct(GROUPS) /\ Numeric(GROUPS) /\ Distinct(USERS)
  /\ startup.marked = <<0, 1>>
  /\ Cardinality(completed) = Cardinality(Units) - 1

\* C5: a run in which every unit succeeded ends with the marker deleted and
\* exit code 0, also when the finished ping failed; a run that aborts ends
\* with the marker on disk and exit code 1.
C5_MarkerDeletedOnSuccessKeptOnAbort ==
  job = "gitlab" /\ pc = "exit" =>
    IF success
      THEN /\ ~resumeFile.exists
           /\ exitCode = 0
           /\ finishPing # "none"
           /\ completed = {p \in Units : ~Before(p, StartPos)}
      ELSE /\ resumeFile.exists
           /\ resumeFile.g = GROUPS[gi + 1] /\ resumeFile.u = USERS[ui + 1]
           /\ exitCode = 1
           /\ finishPing = "none"

C5_Witness ==
  job = "gitlab" /\ pc = "exit" /\ success /\ finishPing = "failed"
    /\ ~resumeFile.exists

\* the state right after startup, before the first unit
JustStarted == job = "gitlab" /\ pc = "loop" /\ completed = {}

C7_RetryAfter429 ==
  job = "gitlab" =>
    /\ glRequests <= 5
    /\ pc = "fetch" => attempt = glRequests + 1 /\ glRequests < 5
    /\ lastFetch.status = 429 =>
          /\ lastFetch.slept =
               1000 * (IF lastFetch.header = <<>> THEN 60 ELSE lastFetch.header[1])
          /\ markPos = CurPos
          /\ glRequests < 5 => pc = "fetch" /\ attempt = glRequests + 1
          /\ glRequests = 5 => pc = "exit" /\ ~success /\ exitCode = 1

C7_Witness ==
  job = "gitlab" /\ lastFetch.status = 429 /\ glRequests = 5 /\ pc = "exit"
    /\ lastFetch.header = <<>> /\ lastFetch.slept = 60000

---------------------------------------------------------------------------
(* Properties of the setPullServices sender *)

\* rows of a log that are about group i
RowsOf(log, i) == {k \in 1..Len(log) : log[k].item = i}

\* the worker has just finished a group it sent to the sink
SpsFinished == job = "setPullServices" /\ pc = "spsLoop" /\ spsHist # <<>>

\* C8 as stated: after a 429 with Retry-After: 2 and then a 200, the sender
\* has slept at least 2 seconds between the two calls, made exactly 2
\* attempts and logged a success.
C8_WaitsRetryAfter ==
  SpsFinished /\ spsHist = <<429, 200>> =>
    /\ Len(spsDelays) = 1
    /\ spsDelays[1] >= SinkRetryAfter * 1000
    /\ RowsOf(successOut, spsItem - 1) # {}
    /\ RowsOf(errorOut, spsItem - 1) = {}

\* C9: against a sink that answers 500 every time the sender makes exactly 5
\* attempts, each sleep is longer than the one before for every jitter (500
\* ms doubling, under the 30 s cap, plus a jitter below 250 ms), and the group
\* then has one row in the error log and none in the success log.
C9_FiveAttemptsThenFailure ==
  job = "setPullServices" /\ spsHist # <<>>
    /\ (\A k \in 1..Len(spsHist) : spsHist[k] = 500)
  =>
    /\ Len(spsHist) <= 5
    /\ Len(spsHist) < 5 => pc = "spsCall" /\ Len(spsDelays) = Len(spsHist)
    /\ Len(spsHist) = 5 =>
         /\ pc = "spsLoop"
         /\ Len(spsDelays) = 4
         /\ Cardinality(RowsOf(errorOut, spsItem - 1)) = 1
         /\ RowsOf(successOut, spsItem - 1) = {}
    /\ \A k \in 1..(Len(spsDelays) - 1) : spsDelays[k] < spsDelays[k + 1]
    /\ \A k \in 1..Len(spsDelays) :
         /\ spsDelays[k] >= 500 * 2 ^ (k - 1)
         /\ spsDelays[k] < 500 * 2 ^ (k - 1) + 250
         /\ spsDelays[k] < 30000 + 250

C9_Witness ==
  /\ SpsFinished
  /\ spsHist = <<500, 500, 500, 500, 500>>
  /\ spsDelays[1] = 749 /\ spsDelays[2] = 1000
  /\ Cardinality(RowsOf(errorOut, spsItem - 1)) = 1

\* a 4xx status that is neither 429 nor 408
Permanent4xx(status) == status >= 400 /\ status < 500 /\ status \notin {408, 429}
\* no status, a 5xx, a 429 or a 408
Transient(status) == status = 0 \/ status >= 500 \/ status \in {408, 429}

\* C10: a 4xx other than 429 and 408 ends the group at once with a row in the
\* error log (one attempt when it answers the first call); a failure with no
\* status, a 5xx, a 429 or a 408 is followed by another attempt while fewer
\* than 5 were made.
C10_PermanentAndTransientFailures ==
  job = "setPullServices" /\ spsHist # <<>> =>
    LET last == spsHist[Len(spsHist)] IN
    /\ \A k \in 1..(Len(spsHist) - 1) : Transient(spsHist[k])
    /\ Permanent4xx(spsHist[1]) => Len(spsHist) = 1
    /\ Permanent4xx(last) =>
         /\ pc = "spsLoop"
         /\ Cardinality(RowsOf(errorOut, spsItem - 1)) = 1
         /\ RowsOf(successOut, spsItem - 1) = {}
    /\ Transient(last) /\ Len(spsHist) < 5 =>
         /\ pc = "spsCall"
         /\ Len(spsDelays) = Len(spsHist)
         /\ RowsOf(errorOut, spsItem) = {}

C10_Witness ==
  /\ SpsFinished
  /\ spsHist = <<404>>
  /\ spsDelays = <<>>
  /\ Cardinality(RowsOf(errorOut, spsItem - 1)) = 1

---------------------------------------------------------------------------
(* Properties that span several scripts *)

\* C1 as stated: every retry loop is attempt-bounded.  getEarliestMergedMRs
\* and withRetry stop at 5 requests for one item and fetchComments retries a
\* 503 or 504 three times, so no loop issues more than 5 requests for one
\* item, whatever the remote side answers.
C1_RetryLoopsBounded ==
  /\ job = "gitlab" => glRequests <= 5
  /\ job = "setPullServices" => Len(spsHist) <= 5
  /\ job = "confluence" => fcRequests <= 5

\* the records of the pipelines queue, and those attempted so far
PipeRecords == {fr \in (1..Len(pipeRows)) \X (1..MaxRows) : fr[2] <= pipeRows[fr[1]]}
PipeAttemptedSet == {<<pipeAttempted[k][1], pipeAttempted[k][2]>> :
                       k \in 1..Len(pipeAttempted)}

PipelinesAttemptAll ==
  job = "pipelines" /\ pc = "pipeDone" =>
    /\ PipeAttemptedSet = PipeRecords
    /\ Len(pipeAttempted) = Cardinality(PipeRecords)

DeploymentsAttemptAll ==
  job = "deployments" /\ pc = "depExit" =>
    /\ Len(depResults) = depCount
    /\ failures = Cardinality({k \in 1..Len(depResults) : depResults[k] # "OK"})

\* C2 as stated: in the pipelines importer, the deployments uploader and the
\* GitLab backfill a failing record never aborts the batch: when the job
\* ends, every record (every unit from the start position on) was processed.
C2_NoRecordAbortsTheBatch ==
  /\ PipelinesAttemptAll
  /\ DeploymentsAttemptAll
  /\ job = "gitlab" /\ pc = "exit" =>
       completed \cup (IF success THEN {} ELSE {CurPos})
         = {p \in Units : ~Before(p, StartPos)}

\* C2 as amended: that holds of the pipelines importer and of the deployments
\* uploader.  The GitLab backfill catches a failure outside its loops: the
\* first failing unit ends the run, and no unit after it is processed.
C2_RecordFailuresAreLocalExceptGitlab ==
  /\ PipelinesAttemptAll
  /\ DeploymentsAttemptAll
  /\ job = "gitlab" /\ pc = "exit" /\ ~success =>
       /\ CurPos \notin completed
       /\ completed = {p \in Units : ~Before(p, StartPos) /\ Before(p, CurPos)}

C2_Witness ==
  /\ job = "pipelines" /\ pc = "pipeDone"
  /\ Len(pipeAttempted) >= 3
  /\ pipeAttempted[1][3] = "threw"
  /\ pipeAttempted[2][3] = "failed"
  /\ Len(failureLog) = 2

---------------------------------------------------------------------------
(* Properties of the throttle, of dry runs and of the token checks *)

\* POSTs that began in the second that starts with POST number i
CallsInWindow(i) ==
  {j \in 1..Len(callStarts) :
     callStarts[j] >= callStarts[i] /\ callStarts[j] < callStarts[i] + 1000}

\* C11 as stated: the importer sleeps 1000 ms / RPS after every record,
\* whatever its POST did, so for every RPS no more than RPS calls begin in any
\* window of one second.
C11_ThrottleKeepsCallRate ==
  job = "incidents" =>
    /\ now >= incIdx * DelayMs(RPS)
    /\ \A i \in 1..Len(callStarts) : Cardinality(CallsInWindow(i)) <= RPS

\* the record the pipelines importer processed last
PipeLastRecord == [reference_id |-> RefIds[pipeAttempted[Len(pipeAttempted)][2]]]

\* C12 as stated: in a dry run no request is sent, and for every record the
\* job logs a preview that equals the payload a live run sends for it; in the
\* pipelines, incidents, deployments and setPullServices importers.
C12_DryRunSendsNothingAndPreviewsPayload ==
  /\ job = "pipelines" /\ pipeDryRun /\ pipeAttempted # <<>> =>
       /\ ~pipeLast.request.sent
       /\ pipeLast.logged = <<PipeBuildPayload(PipeLastRecord)>>
  /\ job = "incidents" /\ incDryRun /\ incIdx > 0 =>
       /\ ~incLast.request.sent
       /\ callStarts = <<>>
       /\ incLast.preview = IncBuildPayload(incLast.row)
  /\ job = "deployments" /\ depDryRun /\ depIdx > 0 /\ depLast.error = "" =>
       /\ ~depLast.request.sent
       /\ depLast.logged = <<DepBuildPayload(depLast.row)>>
  /\ job = "setPullServices" /\ spsDryRun /\ successOut # <<>> =>
       /\ spsHist = <<>>
       /\ spsLast.logged = <<SpsPayload(spsLast.group)>>

---------------------------------------------------------------------------
(* Properties of the audit logs *)

\* the header is the first row of the file and no other row
HeaderOnceAndFirst(file) ==
  file.rows # <<>> =>
    /\ file.rows[1] = FailureLogHeader
    /\ \A k \in 2..Len(file.rows) : file.rows[k] # FailureLogHeader

\* a step leaves the rows of the file in place, adds at its end only, and adds
\* a header only to a missing or empty file
AppendsOnly ==
  /\ Len(failureFile'.rows) >= Len(failureFile.rows)
  /\ SubSeq(failureFile'.rows, 1, Len(failureFile.rows)) = failureFile.rows
  /\ \A k \in (Len(failureFile.rows) + 1)..Len(failureFile'.rows) :
       failureFile'.rows[k] = FailureLogHeader =>
         ~failureFile.exists \/ Len(failureFile.rows) = 0

\* C14: after any sequence of appendFailure calls on a file that was missing
\* or empty, the file holds the header row once, as its first row; a header is
\* written only to a missing or empty file, and no call changes or removes a
\* row the file held.
C14_FailureLogHeaderOnceRowsKept ==
  /\ [](job = "failureLog" => HeaderOnceAndFirst(failureFile))
  /\ [][job = "failureLog" => AppendsOnly]_vars

C14_Witness ==
  /\ job = "failureLog"
  /\ Len(failureFile.rows) = 3
  /\ failureFile.rows[1] = FailureLogHeader
  /\ failureFile.rows[2] # failureFile.rows[3]

\* C15 as stated: however often the setPullServices importer is run against
\* the same log files, its success log and its error log each hold their
\* header line once.
C15_SpsLogHeaderOnce ==
  job = "setPullServices" =>
    /\ Headers(successFile) <= 1
    /\ Headers(errorFile) <= 1

\* the attempts of the pipelines run that failed, and the row each one owes
\* the failure log
AttemptFailed(a) == a[3] # "ok"
FailedAttempts == SelectSeq(pipeAttempted, AttemptFailed)
FailureRowOf(a) == <<ChunkNames[a[1]], RefIds[a[2]], a[3], RefIds[a[2]]>>
FailureDataRows ==
  IF failureFile.rows = <<>> THEN <<>> ELSE Tail(failureFile.rows)

\* C16: in the pipelines importer the rows a run has added to the failure log
\* are, in order, one row for every record whose POST answered a non-2xx
\* status or threw (its file name, reference_id, message and payload), and no
\* row for a record whose POST succeeded.
C16_OneFailureRowPerFailedRecord ==
  job = "pipelines" =>
    /\ Len(FailureDataRows) = Len(FailedAttempts)
    /\ Len(failureLog) = Len(FailedAttempts)
    /\ \A k \in 1..Len(FailedAttempts) :
         /\ FailureDataRows[k] = FailureRowOf(FailedAttempts[k])
         /\ failureLog[k] = <<FailedAttempts[k][1], FailedAttempts[k][2]>>

C16_Witness ==
  /\ job = "pipelines" /\ pc = "pipeDone"
  /\ Len(pipeAttempted) = 4
  /\ pipeAttempted[1][3] = "ok"
  /\ pipeAttempted[2][3] = "threw"
  /\ pipeAttempted[3][3] = "failed"
  /\ pipeAttempted[4][3] = "ok"
  /\ Len(FailureDataRows) = 2

---------------------------------------------------------------------------
(* Properties of the pure functions *)

Returned(name) == job = "functions" /\ pc = "returned" /\ fnName = name

\* the names of a list of paths
NamesOf(paths) == [k \in 1..Len(paths) |-> SubSeq(paths[k], 3, Len(paths[k]))]

Chunk1 == <<"c", "_", "1", ".csv">>
Chunk2 == <<"c", "_", "2", ".csv">>
Chunk10 == <<"c", "_", "1", "0", ".csv">>
ChunkNoDigits == <<"c", ".csv">>

\* C17: numericSortFiles returns the .csv files of the listing (whatever the
\* case of the extension), each once, in the order of the first integer of
\* their names, a name without digits counting as 0; the listing chunk_2,
\* chunk_10, chunk_1 comes back as chunk_1, chunk_2, chunk_10 in whatever
\* order the directory lists them.
C17_NumericSortFiles ==
  Returned("numericSortFiles") =>
    LET out == NamesOf(fnOutput)
        csv == {k \in 1..Len(fnInput) : fnInput[k][Len(fnInput[k])] \in {".csv", ".CSV"}}
    IN  /\ {out[k] : k \in 1..Len(out)} = {fnInput[k] : k \in csv}
        /\ Len(out) = Cardinality(csv)
        /\ \A k \in 1..Len(out) : fnOutput[k] = <<"Backfill", "/">> \o out[k]
        /\ \A i, j \in 1..Len(out) : i < j => FileNumber(out[i]) <= FileNumber(out[j])
        /\ {fnInput[k] : k \in 1..Len(fnInput)} = {Chunk1, Chunk2, Chunk10} =>
             out = <<Chunk1, Chunk2, Chunk10>>
        /\ {fnInput[k] : k \in 1..Len(fnInput)} = {Chunk1, ChunkNoDigits} =>
             out = <<ChunkNoDigits, Chunk1>>

C17_Witness ==
  /\ Returned("numericSortFiles")
  /\ fnInput = <<Chunk2, Chunk10, Chunk1>>
  /\ NamesOf(fnOutput) = <<Chunk1, Chunk2, Chunk10>>

---------------------------------------------------------------------------
(* Properties of validation and of list parsing *)

\* C18 as stated: a payload that reaches the sender has its required fields,
\* none of them empty, and a record that misses one is rejected before a
\* request is made: deployed_at and service in the deployments uploader,
\* reference_id in the incidents importer, repository, pull_number and
\* services in setPullServices.
C18_RequiredFieldsOrRejected ==
  /\ job = "deployments" /\ depIdx > 0 /\ depLast.request.sent =>
       /\ depLast.request.body.deployed_at # <<>>
       /\ depLast.request.body.service # <<>>
  /\ job = "incidents" /\ incIdx > 0 /\ incLast.request.sent =>
       incLast.request.body.reference_id # ""
  /\ Returned("parseRow") /\ fnOutput # <<>> =>
       /\ Trim(fnInput.repository) # <<>>
       /\ Trim(fnInput.pull_number) # <<>>
       /\ Trim(fnInput.services) # <<>>
       /\ fnOutput[1].repository # <<>>
       /\ fnOutput[1].services # <<>>

\* C19 as stated: the deployments uploader rejects a row that gives neither
\* commit_sha nor merge_commit_shas: the row counts as a failure and no
\* request is sent for it.
C19_RejectsRowWithoutCommit ==
  job = "deployments" /\ depIdx > 0
    /\ depLast.row.commit_sha = <<>> /\ depLast.row.merge_commit_shas = <<>>
  =>
    /\ ~depLast.request.sent
    /\ depResults[Len(depResults)] # "OK"

\* what the claim says a list-valued cell parses to: its items trimmed, the
\* empty ones dropped, each kept once where it first occurs
ExpectedList(items) == Dedup(FilterBoolean(TrimAll(items)))

\* C20 as stated: parseServices of setPullServices and parseServices of the
\* incidents importer give, for the JSON text of a list of items and for the
\* same items joined by a comma, a semicolon or a pipe, the same list: the
\* items without duplicates, in the order of their first occurrence, with no
\* empty or blank entry.
C20_ListsParseAlike ==
  Returned("parseServices") \/ Returned("incidents.parseServices") =>
    fnOutput = ExpectedList(fnInput.items)


---------------------------------------------------------------------------
(* Properties of toIso8601Z of the incidents importer *)

\* the text ends in Z or in an offset from UTC
EndsInZoneMarker(str) ==
  \E z \in IsoZones \ {<<>>} :
    /\ Len(str) > Len(z)
    /\ SubSeq(str, Len(str) - Len(z) + 1, Len(str)) = z

\* C21: for a timestamp of a supported shape (a bare date, a space-separated
\* or T-separated date and time with or without seconds, with or without Z
\* or an offset) toIso8601Z is idempotent, its output ends in Z or an offset,
\* and a value that already carries Z or an offset is returned unchanged.
C21_Iso8601ZIdempotent ==
  Returned("toIso8601Z") /\ fnInput.supported =>
    /\ toIso8601Z(fnOutput) = fnOutput
    /\ EndsInZoneMarker(fnOutput)
    /\ (EndsInZoneMarker(fnInput.text) => fnOutput = fnInput.text)

\* C21 witness: a space-separated date and time without seconds has been
\* converted to the T-separated form with seconds and Z
C21_Witness ==
  /\ Returned("toIso8601Z")
  /\ fnInput.supported
  /\ fnInput.text = IsoDate \o <<" ", "0", "9", ":", "3", "0">>
  /\ fnOutput = IsoDate \o <<"T", "0", "9", ":", "3", "0", ":", "0", "0", "Z">>


---------------------------------------------------------------------------
(* Properties of the exit code of the deployments uploader *)

\* the rows of the CSV whose logged outcome is not OK
DepFailedRows == {i \in 1..Len(depResults) : depResults[i] # "OK"}

\* every row of the CSV has one logged outcome, and failures counts the rows
\* that were not delivered
DepRowsCountedOnce ==
  /\ Len(depResults) = depCount
  /\ failures = Cardinality(DepFailedRows)

\* C22 (as stated): the deployments uploader exits with code 0 exactly when
\* every row was delivered, and every row is counted once as a success or
\* as a failure.
C22_ExitZeroIffEveryRowDelivered ==
  job = "deployments" /\ pc = "depExit" =>
    /\ DepRowsCountedOnce
    /\ (exitCode = 0 <=> DepFailedRows = {})

\* C22 (amended): for a CSV of at least one row the uploader exits with
\* code 0 exactly when every row was delivered, and every row is counted
\* once; a CSV without rows ends the job with code 1.
C22_ExitZeroIffEveryRowOfNonEmptyCsvDelivered ==
  job = "deployments" /\ pc = "depExit" =>
    /\ DepRowsCountedOnce
    /\ (depCount > 0 => (exitCode = 0 <=> DepFailedRows = {}))
    /\ (depCount = 0 => exitCode = 1)

\* C22 witness: a job of three rows has ended with code 1 after one row was
\* delivered, one was answered with a failure and one was rejected
C22_Witness ==
  /\ job = "deployments" /\ pc = "depExit"
  /\ depCount = 3
  /\ depResults = <<"OK", "FAIL", "ERROR">>
  /\ failures = 2
  /\ exitCode = 1


---------------------------------------------------------------------------
(* Properties of the configuration checks *)

\* C23: in the pipelines importer, the setPullServices importer, the GitLab
\* backfill and the deployments uploader a missing address or credential
\* ends the job at once with a non-zero exit code, before any input is read
\* and before any request is sent.
C23_MissingConfigIsFatalBeforeInput ==
  /\ job = "gitlab" /\ pc = "configExit" =>
       /\ exitCode # 0
       /\ startup = NoStartup
       /\ completed = {}
       /\ lastFetch = NoFetch
  /\ job = "pipelines" /\ ~pipeToken /\ ~pipeDryRun =>
       /\ pc \in {"pipeConfig", "pipeExit"}
       /\ pc = "pipeExit" => exitCode # 0
       /\ pipeAttempted = <<>>
       /\ pipeFile = 1
  /\ job = "setPullServices" /\ ~spsToken /\ ~spsDryRun =>
       /\ pc \in {"spsMain", "spsExit"}
       /\ pc = "spsExit" => exitCode # 0
       /\ spsItem = 1
       /\ spsHist = <<>>
  \* the uploader never comes to take up a row while it has no token for it
  /\ job = "deployments" /\ depIdx > 0 =>
       depLast.error # "Token not provided"


---------------------------------------------------------------------------
(* Properties of the shards of the setPullServices importer *)

\* the event has happened, and its place in the order of events
Happened(e) == \E i \in 1..Len(shEvents) : shEvents[i] = e
PlaceOf(e) == CHOOSE i \in 1..Len(shEvents) : shEvents[i] = e
HappenedBefore(e, f) == Happened(e) /\ Happened(f) /\ PlaceOf(e) < PlaceOf(f)

\* no group is begun or ended twice, and a group is ended only after it was
\* begun
EachGroupOnce ==
  /\ \A i, j \in 1..Len(shEvents) : shEvents[i] = shEvents[j] => i = j
  /\ \A g \in 1..shCount :
       Happened(<<"end", g>>) => HappenedBefore(<<"begin", g>>, <<"end", g>>)

\* inside a shard a group is begun only after the group before it was ended
SequentialInShard ==
  \A k \in 1..Len(shShards) : \A j \in 1..(Len(shShards[k]) - 1) :
    Happened(<<"begin", shShards[k][j + 1]>>) =>
      HappenedBefore(<<"end", shShards[k][j]>>, <<"begin", shShards[k][j + 1]>>)

ChunkLoopAdvances ==
  job = "shards" /\ pc = "chunk" /\ pc' = "chunk" => shI' > shI

\* C30: for every value of --concurrency (0, negative and non-numeric ones
\* included) and every number of groups the building of the shards ends,
\* every turn of its loop bringing it nearer to its end, and the job comes to
\* print "Done".
C30_ShardingEndsForEveryConcurrency ==
  /\ [][ChunkLoopAdvances]_vars
  /\ <>(job = "shards" => pc = "Done")


---------------------------------------------------------------------------
(* Properties of the batches of the Tabnine usage importer *)

\* no batch holds more rows than CHUNK_SIZE, and when the import has ended
\* without an error the batches, one after the other, are the fetched rows
TabBatchesCoverRows ==
  job = "tabnine" =>
    /\ \A b \in 1..Len(tabBatches) :
         CHUNK_SIZE.finite /\ Len(tabBatches[b]) <= CHUNK_SIZE.value
    /\ pc = "tabDone" /\ exitCode = 0 => Flatten(tabBatches) = AllTabRows

\* C26: for every chunk size given by --chunk-size or CHUNK_SIZE the Tabnine
\* importer inserts the fetched rows in consecutive batches of at most
\* CHUNK_SIZE rows, every row in exactly one batch and in order, and the
\* batching loop ends.
C26_BatchesCoverRowsAndLoopEnds ==
  /\ []TabBatchesCoverRows
  /\ <>(job = "tabnine" => pc = "tabDone")


---------------------------------------------------------------------------
(* Properties of the order of the pipelines importer *)

\* the records of the files f, f + 1, ... of the queue: file by file, and the
\* rows of a file from the first to the last
RECURSIVE RecordsFrom(_)
RecordsFrom(f) ==
  IF f > Len(pipeRows) THEN <<>>
  ELSE [r \in 1..pipeRows[f] |-> <<f, r>>] \o RecordsFrom(f + 1)

SourceOrder == RecordsFrom(1)

\* the records attempted so far, in the order of their attempts
PipeAttemptedOrder ==
  [k \in 1..Len(pipeAttempted) |-> <<pipeAttempted[k][1], pipeAttempted[k][2]>>]

---------------------------------------------------------------------------
(* Properties of postDX of the GitLab onboarding backfill *)

\* C27: a DX answer of status 200 whose JSON body has ok = false makes
\* postDX throw: the POST is not counted as delivered and the run is aborted
\* with the marker kept.  A 200 answer whose body is no JSON is accepted.
C27_OkFalseAbortsTheRun ==
  job = "gitlab" /\ lastPost # <<>> =>
    /\ lastPost = <<"okFalse">> =>
         /\ pc = "exit"
         /\ ~success
         /\ exitCode = 1
         /\ resumeFile.exists
    /\ lastPost = <<"notJson">> => success


---------------------------------------------------------------------------
(* Properties of the finished ping of the GitLab onboarding backfill *)

\* the units a run has to go through: those from its start position on
UnitsOfRun == {p \in Units : ~Before(p, StartPos)}

\* the ping was made only at the end of a run that went through every one of
\* its units, and a run that failed has ended without it
PingOnlyAfterEveryUnit ==
  job = "gitlab" =>
    /\ finishPing # "none" =>
         /\ pc = "exit"
         /\ success
         /\ mrsLeft = 0
         /\ completed = UnitsOfRun
    /\ ~success =>
         /\ pc = "exit"
         /\ finishPing = "none"

\* the ping is made by the step that ends the loops, and once made it stays
\* as it is until the script is invoked again; a run that failed touches no
\* further unit
PingAtMostOnce ==
  /\ finishPing' # finishPing /\ finishPing' # "none" =>
       finishPing = "none" /\ pc = "finish"
  /\ ~success /\ ~success' => UNCHANGED <<gi, ui, completed, glRequests, lastPost>>

\* C28: the GitLab backfill sends the finished ping at most once per run and
\* only after the merge requests of every (group, user) unit of the run were
\* posted; in a run that fails no later unit is fetched or posted and the
\* ping is never sent.
C28_FinishedPingOnceAfterEveryUnit ==
  []PingOnlyAfterEveryUnit /\ [][PingAtMostOnce]_vars

\* C28 witness: a live run over two groups and two users has gone through
\* its four units and has sent the ping
C28_Witness ==
  /\ job = "gitlab" /\ pc = "exit"
  /\ ~DRY_RUN
  /\ success
  /\ finishPing = "sent"
  /\ Cardinality(completed) = 4


---------------------------------------------------------------------------
(* Properties of readAndGroup of the setPullServices importer *)

\* the rows of the file that parseRow accepts, and the pull request of one
ValidRows == {i \in 1..Len(fnInput) : parseRow(fnInput[i]) # <<>>}
PullOf(i) ==
  <<parseRow(fnInput[i])[1].repository, parseRow(fnInput[i])[1].pull_number>>
PullOfGroup(g) == <<g.repository, g.pull_number>>

\* a row is accepted when it has a repository, a number as its pull_number
\* and at least one service
RowIsValid(row) ==
  /\ Trim(row.repository) # <<>>
  /\ ToNumber(Trim(row.pull_number)).finite
  /\ parseServices(row.services) # <<>>

\* the first valid row of a pull request
FirstRowOf(pull) == CHOOSE i \in ValidRows :
  PullOf(i) = pull /\ \A j \in ValidRows : PullOf(j) = pull => i <= j

\* the services of the valid rows i, i + 1, ... of a pull request, in row order
RECURSIVE ServicesFrom(_, _)
ServicesFrom(pull, i) ==
  IF i > Len(fnInput) THEN <<>>
  ELSE (IF i \in ValidRows /\ PullOf(i) = pull
          THEN parseRow(fnInput[i])[1].services ELSE <<>>)
       \o ServicesFrom(pull, i + 1)

=============================================================================
